---- MODULE Spec2Model ----
(***************************************************************************)
(* Verification model of doomworld_downloader.                             *)
(*                                                                         *)
(* The module holds one state machine per component of the repository:     *)
(*   - the data manager (data_manager.py): SpecLedger                      *)
(*   - the per-level rule table (wad.py): SpecRules                        *)
(*   - the replay analyzer (playback_parser.py): SpecPlayback              *)
(*   - the batch drivers (doomworld_downloader.py, demo_processor.py):     *)
(*     SpecBatch                                                           *)
(*   - the record assemblers (demo_json_dumper.py,                         *)
(*     demo_json_constructor.py): SpecAssembly                             *)
(*   - the demo matcher (generate_dsda_updates.py, demo_updater.py):       *)
(*     SpecMatcher                                                         *)
(*   - the LMP parser (lmp_parser.py): SpecParser                          *)
(*   - the category corrections of the replay analyzer                     *)
(*     (playback_parser.py): SpecRawData                                   *)
(*   - two replay analyses in one working directory                        *)
(*     (playback_parser.py, demo_processor.py): SpecParallel               *)
(*   - the movie type detection of the replay analyzer                     *)
(*     (playback_parser.py, wad.py): SpecMovie                             *)
(*   - the tag derivation of the record assemblers: SpecTags               *)
(* Every specification leaves the variables of the other components at     *)
(* their initial value.                                                    *)
(***************************************************************************)
EXTENDS Integers, Sequences, FiniteSets, TLC

(***************************************************************************)
(* Bounds of the model.                                                    *)
(***************************************************************************)
\* number of DataManager.insert calls explored
MaxInserts == 3
\* number of scalar entries of a level config
MaxLeaves == 3
\* number of WAD guesses handed to the replay analyzer
MaxGuesses == 3
\* number of alternative command lines of a WAD
MaxAlts == 1
\* number of command lines tried for one WAD guess
MaxCmdLines == 2
\* number of levels a replay completes
MaxLines == 2
\* number of downloads of a batch
MaxDemos == 2
\* number of demo files of one download
MaxLmps == 2
\* the DSDA entries of one demo location
MaxEntries == 2
\* the demo JSONs of one demo pack
MaxJsons == 2
\* the pieces of an LMP file after its header
MaxTail == 2
\* the levels of one replay
MaxLevels == 2
\* the lines of a levelstat of several levels
MaxMaps == 3

(***************************************************************************)
(* State of the components.                                                *)
(***************************************************************************)
\* data manager
VARIABLES
    dm_keys,      \* DataManager.data: its keys, in insertion order
    dm_data,      \* DataManager.data: the FieldManager.data of every field
    inserted,     \* history: the (field, value, certainty) of the insert calls
    nInserts,     \* history: the number of insert calls
    lastEval,     \* the Evaluation returned by the latest evaluate call
    prevEval,     \* the Evaluation returned by the evaluate call before it,
                  \* when no insert came in between
    conflictAt    \* history: per field, the number of inserts the field had
                  \* when evaluate first reported disagreeing CERTAIN
                  \* values for it, or 0

ledgerVars == <<dm_keys, dm_data, inserted, nInserts, lastEval, prevEval,
                conflictAt>>

\* rule index
VARIABLES
    cfg,          \* WadMapInfo.map_info_dict of one level, as read from the YAML
    loaded,       \* outcome of loading it: "pending", "ok" or "raised"
    lookup        \* the latest get_single_key_for_map call and what it returned

rulesVars == <<cfg, loaded, lookup>>

\* replay analyzer
VARIABLES
    pb_in,            \* inputs of one analysis: the Wad objects guessed, the
                      \* footer files of the demo, the CONFIG options
    wad_guesses,      \* self.wad_guesses: the Counter of the guessed WAD URLs
    pb_pc,            \* position in _playback: "wad", "cmd", "finish", "done"
    pb_wi,            \* index of the WAD guess of the outer loop
    pb_ci,            \* index of the command line of the inner loop
    fs,               \* levelstat.txt/analysis.txt in the working directory
    demo_playback,    \* self._demo_playback
    playback_failed,  \* self.playback_failed
    pb_data,          \* self.data: its keys
    invoked           \* history: the engine invocations and what each wrote

playbackVars == <<pb_in, wad_guesses, pb_pc, pb_wi, pb_ci, fs, demo_playback,
                  playback_failed, pb_data, invoked>>

\* batch drivers
VARIABLES
    bt_in,            \* inputs of a batch: the driver, the CONFIG options, the
                      \* number of demo files of every download
    bt_pc,            \* position of the driver: "run" or "returned"
    bt_i,             \* index of the download of the outer loop
    bt_j,             \* index of the demo file of the inner loop
    bt_facts,         \* the sources that inserted into the DataManager of
                      \* every demo file
    bt_parsed,        \* handle_demos: the demo files the DemoJsonConstructor
                      \* of the current download has parsed
    bt_records,       \* the demo files with a record: a dumped demo JSON
                      \* (handle_demos), an entry of demo_infos (DemoProcessor)
    bt_result,        \* the return value of handle_demos
    process_failed,   \* DemoProcessor.process_failed
    bt_analyzed,      \* history: the demo files whose playback was analyzed
    bt_failed,        \* history: those of them with playback_failed set
    bt_extracted      \* the downloads whose zip_extract_dir exists on disk

batchVars == <<bt_in, bt_pc, bt_i, bt_j, bt_facts, bt_parsed, bt_records,
               bt_result, process_failed, bt_analyzed, bt_failed,
               bt_extracted>>

\* record assembler
VARIABLES
    as_in,            \* inputs of one assembly: the assembler class, the note
                      \* strings, the level stats of the playback and whether
                      \* the assembler is handed them (DemoInfo hands them to
                      \* DemoJson, extra_data may hand them to the constructor)
    as_pc,            \* "populate" while the sources insert into the data
                      \* manager of the demo, then "done" or "raised"
    demo_dict,        \* DemoJson.demo_dict / the demo_json of the constructor
    has_issue,        \* the has_issue flag of the assembler
    maybe_cheated,    \* the maybe_cheated flag of the assembler
    has_tags          \* the has_tags flag of the assembler

assemblyVars == <<as_in, as_pc, demo_dict, has_issue, maybe_cheated, has_tags>>


\* demo matcher
VARIABLES
    mt_in,               \* inputs of one run: the matcher, the DSDA entries of
                         \* one demo location (demo_list / dsda_demo_info_list)
    demo_jsons,          \* the demo JSONs of the pack still to be matched
                         \* (demo_jsons / full_demo_jsons)
    mt_pc,               \* "match" inside the while loop, "matched" after it,
                         \* "done" after the last DSDA entry
    mt_i,                \* the index of the current DSDA entry
    match_key,           \* the local match_key
    found_match,         \* the local found_match
    matching_demo_json,  \* the local matching_demo_json
    mt_out               \* history: per DSDA entry, what the matcher did

matcherVars == <<mt_in, demo_jsons, mt_pc, mt_i, match_key, found_match,
                 matching_demo_json, mt_out>>


\* LMP parser
VARIABLES
    lp_in,          \* inputs of one analysis: the pieces of the LMP file and
                    \* what the parse_lmp script prints for it
    lp_pc,          \* the position inside LMPData.analyze
    lp_header,      \* LMPData._header
    lp_footer,      \* LMPData._footer
    lp_pos,         \* the position of the file object lmp_bytes
    current_byte,   \* the local current_byte
    footer_chars,   \* the local footer_chars
    lp_data,        \* LMPData.data
    lp_raw,         \* LMPData.raw_data
    lp_raised,      \* the exception that ended the analysis
    lp_calls,       \* history: the steps the analysis went through
    lp_inserted     \* the inserts of populate_data_manager into the data
                    \* manager: key and certainty

parserVars == <<lp_in, lp_pc, lp_header, lp_footer, lp_pos, current_byte,
             footer_chars, lp_data, lp_raw, lp_raised, lp_calls, lp_inserted>>


\* category corrections of the replay analyzer
VARIABLES
    rw_in,          \* inputs: raw_data after _parse_analysis and _parse_levelstat,
                    \* the level config, demo_info and data['wad']
    rw_pc,          \* the position inside PlaybackData._parse_raw_data
    rw_category,    \* PlaybackData.data['category']
    rw_tyson        \* history: data['category'] after the Tyson step

rawDataVars == <<rw_in, rw_pc, rw_category, rw_tyson>>


\* two replay analyses in one working directory
VARIABLES
    pl_in,            \* CONFIG.run_through_all_cmd_line_options
    pl_pc,            \* per demo, the position of its PlaybackData: "init",
                      \* "cmd", "check", "cleanup" or "done"
    pl_n,             \* per demo, the number of engine invocations so far
    pl_fs,            \* levelstat.txt/analysis.txt in the working directory:
                      \* the invocation that wrote them, or NoWriter
    pl_wrote,         \* per demo, whether its last invocation wrote them
    pl_read,          \* history: per demo, the transcripts it has read
    pl_lost           \* history: per demo, whether a transcript its invocation
                      \* wrote was gone or replaced when it looked for it

parallelVars == <<pl_in, pl_pc, pl_n, pl_fs, pl_wrote, pl_read, pl_lost>>


\* movie type detection of the replay analyzer
VARIABLES
    mv_in,            \* inputs of one detection: the map list info of the WAD,
                      \* the maps of the levelstat, the category of the
                      \* analysis, the secret maps configured as nomo_map
    mv_pc,            \* "levelstat" before _parse_levelstat, then "done"
    mv_level,         \* self.data['level']
    mv_notes          \* self.note_strings

movieVars == <<mv_in, mv_pc, mv_level, mv_notes>>


\* tag derivation of the record assemblers
VARIABLES
    tg_in,            \* inputs of one derivation: the assembler class, the
                      \* note strings, the category and the has_issue flag
                      \* parse has left in the record
    tg_pc,            \* "tags" before _construct_tags, then "done" or "raised"
    tg_category,      \* the category of the record
    tg_has_issue,     \* the has_issue flag of the assembler
    tg_tag            \* the text of the tag of the record

tagsVars == <<tg_in, tg_pc, tg_category, tg_has_issue, tg_tag>>

\* the variables an action of one component leaves alone
outsideLedger == <<rulesVars, playbackVars, batchVars, assemblyVars, matcherVars, parserVars, rawDataVars, parallelVars, movieVars, tagsVars>>
outsideRules == <<ledgerVars, playbackVars, batchVars, assemblyVars, matcherVars, parserVars, rawDataVars, parallelVars, movieVars, tagsVars>>
outsidePlayback == <<ledgerVars, rulesVars, batchVars, assemblyVars, matcherVars, parserVars, rawDataVars, parallelVars, movieVars, tagsVars>>
outsideBatch == <<ledgerVars, rulesVars, playbackVars, assemblyVars, matcherVars, parserVars, rawDataVars, parallelVars, movieVars, tagsVars>>
outsideAssembly == <<rulesVars, playbackVars, batchVars, matcherVars, parserVars, rawDataVars, parallelVars, movieVars, tagsVars>>
outsideMatcher ==
    <<ledgerVars, rulesVars, playbackVars, batchVars, assemblyVars, parserVars, rawDataVars, parallelVars, movieVars, tagsVars>>
outsideParser ==
    <<ledgerVars, rulesVars, playbackVars, batchVars, assemblyVars, matcherVars, rawDataVars, parallelVars, movieVars, tagsVars>>
outsideRawData ==
    <<ledgerVars, rulesVars, playbackVars, batchVars, assemblyVars, matcherVars, parserVars, parallelVars, movieVars, tagsVars>>
outsideParallel ==
    <<ledgerVars, rulesVars, playbackVars, batchVars, assemblyVars, matcherVars, parserVars, rawDataVars, movieVars, tagsVars>>
outsideMovie ==
    <<ledgerVars, rulesVars, playbackVars, batchVars, assemblyVars, matcherVars, parserVars, rawDataVars, parallelVars, tagsVars>>
outsideTags ==
    <<ledgerVars, rulesVars, playbackVars, batchVars, assemblyVars, matcherVars, parserVars, rawDataVars, parallelVars, movieVars>>

(***************************************************************************)
(* Data manager (src/doomworld_downloader/data_manager.py)                 *)
(***************************************************************************)
CERTAIN == "certain"
POSSIBLE == "possible"
ONE_CERTAIN == "The value is certain"
ONE_POSSIBLE == "Only one source reported a possible value"
AGREED_POSSIBLE == "Multiple sources agreed on the possible value"
DISAGREED_CERTAIN == "Multiple sources disagreed on the certain value"
DISAGREED_POSSIBLE == "Multiple sources disagreed on the possible value"
NO_VALUE == "No source reported any value"

\* the fields, values and sources the model inserts
Fields == {"category", "level"}
Values == {"UV Max", "UV Speed"}
\* NoSource is the default source=None of insert
NoSource == "None"
Sources == {"playback", "textfile", NoSource}
Certainties == {CERTAIN, POSSIBLE}

NoEval == [key |-> "none"]

\* ValueCounter.__init__: a counter at 0 with no sources.  A value whose
\* counter is at 0 is a value that is not a key of the dictionary (insert
\* increments a counter right after creating it).
ValueCounter == [count |-> 0, sources |-> <<>>]

\* ValueCounter.increment
increment(vc) == [vc EXCEPT !.count = @ + 1]

\* ValueCounter.add_source
add_source(vc, source) ==
    IF source # NoSource THEN [vc EXCEPT !.sources = Append(@, source)] ELSE vc

\* ValueCounter.agreement
agreement(vc) == vc.count > 1

\* FieldManager.__init__
FieldManager == [c \in Certainties |-> [v \in Values |-> ValueCounter]]

\* FieldManager.insert
FM_insert(fm, value, certainty, source) ==
    [fm EXCEPT ![certainty][value] = add_source(increment(@), source)]

\* FieldManager.__certain / __possible: the values that are keys of the dict
FM_certain(fm) == {v \in DOMAIN fm[CERTAIN] : fm[CERTAIN][v].count > 0}
FM_possible(fm) == {v \in DOMAIN fm[POSSIBLE] : fm[POSSIBLE][v].count > 0}

\* FieldManager.__raw_values
FM_raw_values(fm, certainty, vals) == [v \in vals |-> fm[certainty][v].sources]

FM_evaluate_possible_first(fm, field) ==
    IF Cardinality(FM_possible(fm)) > 0
    THEN [key |-> field,
          possible_values |-> FM_raw_values(fm, POSSIBLE, FM_possible(fm)),
          needs_attention |-> Cardinality(FM_possible(fm)) > 1,
          message |-> DISAGREED_POSSIBLE]
    ELSE [key |-> field,
          possible_values |-> FM_raw_values(fm, CERTAIN, FM_certain(fm)),
          needs_attention |-> Cardinality(FM_certain(fm)) # 1,
          message |-> ONE_CERTAIN]
FM_evaluate_any_certain_settles(fm, field) ==
    IF Cardinality(FM_certain(fm)) > 0
    THEN [key |-> field,
          possible_values |-> FM_raw_values(fm, CERTAIN, FM_certain(fm)),
          needs_attention |-> FALSE,
          message |-> ONE_CERTAIN]
    ELSE [key |-> field,
          possible_values |-> FM_raw_values(fm, POSSIBLE, FM_possible(fm)),
          needs_attention |-> TRUE,
          message |-> DISAGREED_POSSIBLE]
\* FieldManager.evaluate
FM_evaluate(fm, field) ==
    LET certain_count == Cardinality(FM_certain(fm))
        possible_count == Cardinality(FM_possible(fm))
    IN  IF certain_count > 0
        THEN [key |-> field,
              possible_values |-> FM_raw_values(fm, CERTAIN, FM_certain(fm)),
              needs_attention |-> (certain_count # 1),
              message |-> IF certain_count = 1 THEN ONE_CERTAIN
                          ELSE DISAGREED_CERTAIN]
        ELSE IF possible_count > 0
        THEN [key |-> field,
              possible_values |-> FM_raw_values(fm, POSSIBLE, FM_possible(fm)),
              needs_attention |->
                  IF possible_count = 1
                  THEN ~agreement(fm[POSSIBLE][CHOOSE v \in FM_possible(fm) : TRUE])
                  ELSE TRUE,
              message |->
                  IF possible_count = 1
                  THEN IF agreement(fm[POSSIBLE][CHOOSE v \in FM_possible(fm) : TRUE])
                       THEN AGREED_POSSIBLE ELSE ONE_POSSIBLE
                  ELSE DISAGREED_POSSIBLE]
        ELSE [key |-> field,
              possible_values |-> <<>>,
              needs_attention |-> TRUE,
              message |-> NO_VALUE]

InSeq(x, s) == \E i \in 1..Len(s) : s[i] = x

\* DataManager.__ensure_field_exists: the keys of data after the call.  A new
\* field starts as FieldManager, which is what dm_data holds for it already.
ensure_field_exists(keys, field) ==
    IF InSeq(field, keys) THEN keys ELSE Append(keys, field)

\* DataManager.__iter__: one Evaluation per key of data
DM_iter == [i \in 1..Len(dm_keys) |-> FM_evaluate(dm_data[dm_keys[i]], dm_keys[i])]

\* the number of insert calls a field has had: the sum of its counters
RECURSIVE SumCounts(_, _)
SumCounts(counters, values) ==
    IF values = {} THEN 0
    ELSE LET v == CHOOSE x \in values : TRUE
         IN  counters[v].count + SumCounts(counters, values \ {v})
InsertsOf(fm) ==
    SumCounts(fm[CERTAIN], DOMAIN fm[CERTAIN])
        + SumCounts(fm[POSSIBLE], DOMAIN fm[POSSIBLE])

\* the insert of a variant in which a CERTAIN value that is reported again
\* replaces the other CERTAIN values
DM_insert_confirming(data, field, value, certainty, source) ==
    [data EXCEPT ![field] =
        IF certainty = CERTAIN /\ @[CERTAIN][value].count > 0
        THEN FM_insert([@ EXCEPT ![CERTAIN] =
                               [v \in DOMAIN @ |->
                                   IF v = value THEN @[v] ELSE ValueCounter]],
                       value, certainty, source)
        ELSE FM_insert(@, value, certainty, source)]
\* DataManager.insert: the data after the call
DM_insert(data, field, value, certainty, source) ==
    [data EXCEPT ![field] = FM_insert(@, value, certainty, source)]

\* DataManager.__init__
InitLedger ==
    /\ dm_keys = <<>>
    /\ dm_data = [f \in Fields |-> FieldManager]
    /\ inserted = {}
    /\ nInserts = 0
    /\ lastEval = NoEval
    /\ prevEval = NoEval
    /\ conflictAt = [f \in Fields |-> 0]

\* DataManager.insert(field, value, certainty, source)
Insert(field, value, certainty, source) ==
    /\ nInserts < MaxInserts
    /\ nInserts' = nInserts + 1
    /\ dm_keys' = ensure_field_exists(dm_keys, field)
    /\ dm_data' = DM_insert(dm_data, field, value, certainty, source)
    /\ inserted' = inserted \cup
           {[field |-> field, value |-> value, certainty |-> certainty]}
    /\ lastEval' = NoEval
    /\ prevEval' = NoEval
    /\ UNCHANGED <<conflictAt, outsideLedger>>

\* DataManager.evaluate(field)
Evaluate(field) ==
    /\ dm_keys' = ensure_field_exists(dm_keys, field)
    /\ lastEval' = FM_evaluate(dm_data[field], field)
    /\ prevEval' = lastEval
    /\ conflictAt' =
           IF lastEval'.message = DISAGREED_CERTAIN /\ conflictAt[field] = 0
           THEN [conflictAt EXCEPT ![field] = InsertsOf(dm_data[field])]
           ELSE conflictAt
    /\ UNCHANGED <<dm_data, inserted, nInserts, outsideLedger>>

InsertStep ==
    \E f \in Fields, v \in Values, c \in Certainties, s \in Sources :
        Insert(f, v, c, s)

EvaluateStep == \E f \in Fields : Evaluate(f)

NextLedger == InsertStep \/ EvaluateStep

(***************************************************************************)
(* Rule index: WadMapInfo (src/doomworld_downloader/wad.py)                *)
(***************************************************************************)
GAME_MODE_OPTIONS == {"single_player", "coop"}
SKILL_OPTIONS == {"easy", "medium", "hard"}
\* WadMapInfo.VALID_KEYS with its built-in defaults, restricted to the key the
\* model stores in configs
VALID_KEYS == [k \in {"tyson_only"} |-> "False"]

\* Python values of the YAML: None, the bool True and the str 'tyson_only'
PyNone == "None"
LeafValues == {PyNone, "True", "tyson_only"}
\* keys a level config of the model may hold: a recognized and an
\* unrecognized override key
ConfigKeys == {"tyson_only", "bogus_key"}
\* the sections a level config of the model may hold, as key paths
SectionPaths == {<<"hard">>, <<"hard", "coop">>, <<"coop">>, <<"coop", "hard">>}
LeafPaths == SectionPaths \cup {<<>>}
Slots == [path : LeafPaths, key : ConfigKeys]

\* a dictionary nesting: every nested section lies in a top-level section
PrefixClosed(secs) == \A p \in secs : Len(p) = 2 => <<p[1]>> \in secs

\* the level configs of the model: at most MaxLeaves scalar entries
WellFormedCfg(c) ==
    /\ PrefixClosed(c.secs)
    /\ \A sl \in DOMAIN c.leaves : sl.path # <<>> => sl.path \in c.secs

\* dict.get on the nested dictionaries: None when the key is absent
GetLeaf(c, path, key) ==
    IF [path |-> path, key |-> key] \in DOMAIN c.leaves
    THEN c.leaves[[path |-> path, key |-> key]]
    ELSE PyNone

\* WadMapInfo._validate_other_key
validate_other_key(key) == key \in DOMAIN VALID_KEYS

\* the keys of the entries of a section that hold a scalar
LeafKeysAt(c, path) == {sl.key : sl \in {x \in DOMAIN c.leaves : x.path = path}}
\* the keys of the entries of a top-level section that hold a dictionary
SubSections(c, top) == {p[2] : p \in {x \in c.secs : Len(x) = 2 /\ x[1] = top}}
TopSections(c) == {p[1] : p \in {x \in c.secs : Len(x) = 1}}

\* WadMapInfo._validate, game-mode branch (lines 49-56): the results of the
\* key validations
GameModeSectionChecks(c, gm) ==
    {validate_other_key(k) : k \in LeafKeysAt(c, <<gm>>)}
    \cup UNION {IF sub \in SKILL_OPTIONS
                THEN {validate_other_key(k) : k \in LeafKeysAt(c, <<gm, sub>>)}
                ELSE {validate_other_key(sub)} : sub \in SubSections(c, gm)}

\* WadMapInfo._validate, skill branch (lines 57-64): the loop
\* "for skill_key, skill_key in ..." binds skill_key to the VALUE of each
\* entry, so the values are what is looked up in VALID_KEYS; a value found in
\* GAME_MODE_OPTIONS is a str, whose characters are validated one by one.
SkillSectionChecks(c, sk) ==
    {IF GetLeaf(c, <<sk>>, k) \in GAME_MODE_OPTIONS
     THEN FALSE
     ELSE validate_other_key(GetLeaf(c, <<sk>>, k)) : k \in LeafKeysAt(c, <<sk>>)}
\* ... and a dictionary value is hashed by "key not in VALID_KEYS": TypeError
SkillSectionUnhashable(c, sk) == SubSections(c, sk) # {}

found_game_mode(c) == TopSections(c) \cap GAME_MODE_OPTIONS # {}
found_skill(c) == TopSections(c) \cap SKILL_OPTIONS # {}

pass_validation(c) ==
    /\ \A k \in LeafKeysAt(c, <<>>) : validate_other_key(k)
    /\ \A gm \in TopSections(c) \cap GAME_MODE_OPTIONS :
           FALSE \notin GameModeSectionChecks(c, gm)
    /\ \A sk \in TopSections(c) \cap SKILL_OPTIONS :
           FALSE \notin SkillSectionChecks(c, sk)
    /\ ~(found_game_mode(c) /\ found_skill(c))

\* WadMapInfo._validate: "raised" is the ValueError of line 76, or the
\* TypeError of an unhashable value when the loop reaches it while
\* pass_validation is still true; either leaves set_up_configs.
WadMapInfo_validate(c, fail_on_error) ==
    IF \/ ~pass_validation(c) /\ fail_on_error
       \/ pass_validation(c) /\ \E sk \in TopSections(c) \cap SKILL_OPTIONS :
                                    SkillSectionUnhashable(c, sk)
    THEN "raised"
    ELSE "ok"

\* first element of a sequence of values that is not None, else None
FirstNotNone(prefs) ==
    IF \E i \in 1..Len(prefs) : prefs[i] # PyNone
    THEN prefs[CHOOSE i \in 1..Len(prefs) :
                   prefs[i] # PyNone /\ \A j \in 1..(i - 1) : prefs[j] = PyNone]
    ELSE PyNone

\* WadMapInfo.get_single_key_for_map, lines 119-128: value_preferences
value_preferences(c, key, skill, game_mode) ==
    (IF <<skill>> \in c.secs
     THEN <<GetLeaf(c, <<skill, game_mode>>, key), GetLeaf(c, <<skill>>, key)>>
     ELSE IF <<game_mode>> \in c.secs
     THEN <<GetLeaf(c, <<game_mode, skill>>, key), GetLeaf(c, <<game_mode>>, key)>>
     ELSE <<>>)
    \o <<GetLeaf(c, <<>>, key)>>

get_single_key_skips_level_default(c, key, skill, game_mode, use_builtin_defaults) ==
    IF FirstNotNone(SubSeq(value_preferences(c, key, skill, game_mode), 1,
                           Len(value_preferences(c, key, skill, game_mode)) - 1)) # PyNone
    THEN FirstNotNone(value_preferences(c, key, skill, game_mode))
    ELSE IF use_builtin_defaults /\ key \in DOMAIN VALID_KEYS THEN VALID_KEYS[key]
    ELSE PyNone
\* WadMapInfo.get_single_key_for_map
get_single_key_for_map(c, key, skill, game_mode, use_builtin_defaults) ==
    IF key \notin DOMAIN VALID_KEYS THEN "ValueError"
    ELSE IF skill # PyNone /\ skill \notin SKILL_OPTIONS THEN "ValueError"
    ELSE IF game_mode # PyNone /\ game_mode \notin GAME_MODE_OPTIONS THEN "ValueError"
    ELSE IF FirstNotNone(value_preferences(c, key, skill, game_mode)) # PyNone
    THEN FirstNotNone(value_preferences(c, key, skill, game_mode))
    ELSE IF use_builtin_defaults THEN VALID_KEYS[key]
    ELSE PyNone

\* the lookups the model makes
Queries ==
    [key : {"tyson_only"}, skill : {PyNone, "hard", "medium"},
     game_mode : {PyNone, "coop"}, use_defaults : BOOLEAN]
    \cup {[key |-> "bogus_key", skill |-> "hard", game_mode |-> "coop",
           use_defaults |-> TRUE]}
NoLookup == [kind |-> "none"]

Lookup_of(c, q) ==
    get_single_key_for_map(c, q.key, q.skill, q.game_mode, q.use_defaults)

\* the slots get_single_key_for_map reads for a query, most specific first
PreferenceSlots(c, q) ==
    (IF <<q.skill>> \in c.secs
     THEN << [path |-> <<q.skill, q.game_mode>>, key |-> q.key],
             [path |-> <<q.skill>>, key |-> q.key] >>
     ELSE IF <<q.game_mode>> \in c.secs
     THEN << [path |-> <<q.game_mode, q.skill>>, key |-> q.key],
             [path |-> <<q.game_mode>>, key |-> q.key] >>
     ELSE <<>>)
    \o << [path |-> <<>>, key |-> q.key] >>

\* the entry of the config that defines the answer to a query: the first
\* preference that holds a value other than None
Defines(c, q, sl) ==
    \E i \in 1..Len(PreferenceSlots(c, q)) :
        /\ PreferenceSlots(c, q)[i] = sl
        /\ sl \in DOMAIN c.leaves /\ c.leaves[sl] # PyNone
        /\ \A j \in 1..(i - 1) :
               value_preferences(c, q.key, q.skill, q.game_mode)[j] = PyNone

RemoveLeaf(c, sl) ==
    [c EXCEPT !.leaves = [x \in (DOMAIN c.leaves) \ {sl} |-> c.leaves[x]]]

\* the state before set_up_configs: one level config in the YAML file
InitRules ==
    /\ \E secs \in SUBSET SectionPaths, S \in SUBSET Slots :
         /\ Cardinality(S) <= MaxLeaves
         /\ \E f \in [S -> LeafValues] :
              /\ cfg = [secs |-> secs, leaves |-> f]
              /\ WellFormedCfg(cfg)
    /\ loaded = "pending"
    /\ lookup = NoLookup

\* set_up_configs -> WadMapListInfo.__init__ -> WadMapInfo.__init__, with
\* fail_on_error=True
Load ==
    /\ loaded = "pending"
    /\ loaded' = WadMapInfo_validate(cfg, TRUE)
    /\ UNCHANGED <<cfg, lookup, outsideRules>>

\* WadMapInfo.get_single_key_for_map on the loaded config
Lookup(q) ==
    /\ loaded = "ok"
    /\ lookup' = [kind |-> "lookup", q |-> q, r |-> Lookup_of(cfg, q)]
    /\ UNCHANGED <<cfg, loaded, outsideRules>>

\* the YAML is edited, the entry that defines the answer to a query is taken
\* out, the file is loaded again by set_up_configs and the query is repeated
RemoveMostSpecific(q) ==
    /\ loaded = "ok"
    /\ \E sl \in DOMAIN cfg.leaves :
         /\ Defines(cfg, q, sl)
         /\ cfg' = RemoveLeaf(cfg, sl)
         /\ loaded' = WadMapInfo_validate(cfg', TRUE)
         /\ lookup' = [kind |-> "requery", q |-> q,
                       r |-> IF loaded' = "ok" THEN Lookup_of(cfg', q)
                             ELSE "not loaded",
                       removed |-> sl]
    /\ UNCHANGED outsideRules

LookupStep == \E q \in Queries : Lookup(q)
RemoveStep == \E q \in Queries : RemoveMostSpecific(q)

NextRules == Load \/ LookupStep \/ RemoveStep

(***************************************************************************)
(* Replay analyzer: PlaybackData._playback                                 *)
(* (src/doomworld_downloader/playback_parser.py)                           *)
(***************************************************************************)
Wads == {"w1", "w2"}
IWads == {"chex", "doom2"}

ALLOWED_FOOTER_FILES ==
    {"bloodcolor.deh", "bloodfix.deh", "doom widescreen hud.wad",
     "doom 2 widescreen assets.wad", "dsda-doom.wad", "prboom-plus.wad",
     "doom_wide.wad", "notransl.deh", "doomgirl_01.wad", "good.deh"}
CHEX_ADDITIONAL_FOOTER_FILES == {"chex.deh", "chexehud.wad"}
FOOTER_WAD_EXTENSIONS == {".bex", ".deh", ".hhe", ".pk3", ".pk7", ".wad"}

\* the footer file names of the model
FooterNames ==
    {"addon.wad", "ADDON", "bloodfix.deh", "chex.deh", "doom2.wad", "notes.txt"}
\* str.lower and os.path.basename on them (no name holds a directory)
lower_basename(name) == IF name = "ADDON" THEN "addon" ELSE name
\* os.path.splitext(...)[1] on the lowered names
splitext_ext(name) ==
    CASE name = "addon" -> ""
      [] name \in {"addon.wad", "doom2.wad"} -> ".wad"
      [] name \in {"bloodfix.deh", "chex.deh"} -> ".deh"
      [] OTHER -> ".txt"

NoFile == [lines |-> 0]
NoPlayback == [lines |-> -1]

\* Counter.most_common(): by count, largest first; equal counts in the order
\* the URLs were first met
most_common(counter) ==
    LET present == {i \in 1..Len(counter.order) : TRUE}
        Before(a, b) ==
            \/ counter.count[counter.order[a]] > counter.count[counter.order[b]]
            \/ /\ counter.count[counter.order[a]] = counter.count[counter.order[b]]
               /\ a < b
        rank(a) == 1 + Cardinality({b \in present : Before(b, a)})
    IN  [r \in 1..Len(counter.order) |->
            counter.order[CHOOSE a \in present : rank(a) = r]]

\* the command lines of a WAD guess, lines 228-244: the primary one, the
\* alternatives, and the copies with -solo-net, -complevel 5 and -deh good
WithOption(lines, opt) == [i \in 1..Len(lines) |-> [lines[i] EXCEPT ![opt] = TRUE]]
BaseLines(wad) ==
    [i \in 1..(1 + wad.alts) |->
        [base |-> i, solo_net |-> FALSE, complevel5 |-> FALSE, good |-> FALSE]]
playback_cmd_lines(inp, wad) ==
    LET l1 == BaseLines(wad)
        l2 == IF inp.always_try_solonet THEN l1 \o WithOption(l1, "solo_net") ELSE l1
        l3 == IF inp.source_port = "TASDooM" THEN l2 \o WithOption(l2, "complevel5")
              ELSE l2
        l4 == IF \/ \E i \in 1..Len(inp.footer_files) :
                        lower_basename(inp.footer_files[i]) = "good.deh"
                 \/ inp.always_try_good_at_doom
              THEN l3 \o WithOption(l3, "good") ELSE l3
    IN  l4

\* the footer file name and extension the guard compares, lines 277-281
footer_file_lower(f) ==
    IF splitext_ext(lower_basename(f)) = "" THEN lower_basename(f) \o ".wad"
    ELSE lower_basename(f)
footer_file_ext(f) ==
    IF splitext_ext(lower_basename(f)) = "" THEN ".wad"
    ELSE splitext_ext(lower_basename(f))

\* the outer condition of the guard, lines 283-286
not_expected(wad, f) ==
    /\ footer_file_lower(f) \notin wad.files
    /\ footer_file_lower(f) # wad.iwad \o ".wad"
    /\ footer_file_lower(f) \notin ALLOWED_FOOTER_FILES
    /\ footer_file_ext(f) \in FOOTER_WAD_EXTENSIONS

\* the unexpected-file guard, lines 275-292
unexpected_file(inp, wad) ==
    \E i \in 1..Len(inp.footer_files) :
        /\ not_expected(wad, inp.footer_files[i])
        /\ wad.iwad = "chex"
        /\ footer_file_lower(inp.footer_files[i]) \notin CHEX_ADDITIONAL_FOOTER_FILES

\* DemoPlayback.__lt__: by levelstat line count
DemoPlayback_lt(a, b) == a.lines < b.lines

\* the Wad objects of the model: w1 is checked for local existence and is
\* for Chex Quest or Doom 2, w2 is commercial, is not checked, is for Doom 2
\* and may ship addon.wad
WadObjects ==
    [w \in Wads |->
        [name : {w}, iwad : IF w = "w1" THEN IWads ELSE {"doom2"},
         files : IF w = "w1" THEN {{"w1.wad"}}
                 ELSE {{"w2.wad"}, {"w2.wad", "addon.wad"}},
         alts : 0..MaxAlts, commercial : {w = "w2"}]]

\* the guess lists of at most MaxGuesses URLs, as the Counter built from them
Counters ==
    {c \in [order : {<<"w1">>, <<"w2">>, <<"w1", "w2">>, <<"w2", "w1">>},
            count : [Wads -> 0..MaxGuesses]] :
        /\ \A w \in Wads : (c.count[w] > 0) <=> InSeq(w, c.order)
        /\ c.count["w1"] + c.count["w2"] <= MaxGuesses}

\* PlaybackData.__init__ (which starts with _cleanup())
InitPlayback ==
    /\ \E w1 \in WadObjects["w1"], w2 \in WadObjects["w2"],
          ff \in {<<>>} \cup {<<n>> : n \in FooterNames},
          opts \in [run_through_all : BOOLEAN, always_try_solonet : BOOLEAN,
                    source_port : {"TASDooM", "DSDA-Doom"},
                    always_try_good_at_doom : BOOLEAN] :
         /\ pb_in = [wad |-> [w \in Wads |-> IF w = "w1" THEN w1 ELSE w2],
                     footer_files |-> ff,
                     run_through_all_cmd_line_options |-> opts.run_through_all,
                     always_try_solonet |-> opts.always_try_solonet,
                     source_port |-> opts.source_port,
                     always_try_good_at_doom |-> opts.always_try_good_at_doom]
         /\ \A w \in Wads : Len(playback_cmd_lines(pb_in, pb_in.wad[w])) <= MaxCmdLines
    /\ wad_guesses \in Counters
    /\ pb_pc = "wad"
    /\ pb_wi = 1
    /\ pb_ci = 0
    /\ fs = NoFile
    /\ demo_playback = NoPlayback
    /\ playback_failed = FALSE
    /\ pb_data = {}
    /\ invoked = <<>>

CurWad == pb_in.wad[most_common(wad_guesses)[pb_wi]]

\* outer loop, lines 216-224: the next WAD guess, which is skipped when
\* _check_wad_existence raises RuntimeError
NextWadGuess ==
    /\ pb_pc = "wad"
    /\ pb_wi <= Len(most_common(wad_guesses))
    /\ \/ /\ ~CurWad.commercial
          /\ pb_wi' = pb_wi + 1
          /\ UNCHANGED <<pb_pc, pb_ci>>
       \/ /\ pb_pc' = "cmd"
          /\ pb_ci' = 1
          /\ UNCHANGED pb_wi
    /\ UNCHANGED <<pb_in, wad_guesses, fs, demo_playback, playback_failed, pb_data,
                   invoked, outsidePlayback>>

\* the outer loop is exhausted
GuessesExhausted ==
    /\ pb_pc = "wad"
    /\ pb_wi > Len(most_common(wad_guesses))
    /\ pb_pc' = "finish"
    /\ UNCHANGED <<pb_in, wad_guesses, pb_wi, pb_ci, fs, demo_playback,
                   playback_failed, pb_data, invoked, outsidePlayback>>

\* where the loops stand after the body of the inner loop: the next command
\* line, or after the inner loop the test of line 304 and the next WAD guess
AfterCmd(break_inner, dp) ==
    IF ~break_inner /\ pb_ci < Len(playback_cmd_lines(pb_in, CurWad))
    THEN /\ pb_ci' = pb_ci + 1
         /\ UNCHANGED <<pb_pc, pb_wi>>
    ELSE IF ~pb_in.run_through_all_cmd_line_options /\ dp # NoPlayback
    THEN /\ pb_pc' = "finish"
         /\ UNCHANGED <<pb_wi, pb_ci>>
    ELSE /\ pb_pc' = "wad"
         /\ pb_wi' = pb_wi + 1
         /\ pb_ci' = 0

\* body of the inner loop, lines 246-302: the engine runs and writes a
\* levelstat of `lines` lines, or nothing when lines = 0
RunCmd(lines) ==
    /\ pb_pc = "cmd"
    /\ LET cand == [wad |-> CurWad.name, cmd |-> pb_ci]
           disk == IF lines > 0 THEN [lines |-> lines, by |-> cand] ELSE fs
           cur == [wad |-> CurWad.name, cmd |-> pb_ci, lines |-> disk.lines,
                   by |-> disk.by]
       IN  /\ invoked' = Append(invoked, [cand |-> cand, lines |-> lines])
           /\ IF disk = NoFile
              THEN /\ fs' = disk
                   /\ UNCHANGED demo_playback
                   /\ AfterCmd(FALSE, demo_playback)
              ELSE IF unexpected_file(pb_in, CurWad)
              THEN /\ fs' = disk
                   /\ UNCHANGED demo_playback
                   /\ AfterCmd(FALSE, demo_playback)
              ELSE /\ demo_playback' =
                          IF demo_playback = NoPlayback
                             \/ DemoPlayback_lt(demo_playback, cur)
                          THEN cur ELSE demo_playback
                   /\ fs' = NoFile
                   /\ AfterCmd(~pb_in.run_through_all_cmd_line_options,
                               demo_playback')
    /\ UNCHANGED <<pb_in, wad_guesses, playback_failed, pb_data, outsidePlayback>>

\* lines 307-337: the data of the accepted playback, or playback_failed
FinishPlayback ==
    /\ pb_pc = "finish"
    /\ pb_pc' = "done"
    /\ IF demo_playback # NoPlayback
       THEN /\ pb_data' =
                  {"wad", "category", "level", "time", "levelstat", "secret_exit"}
                  \cup (IF demo_playback.lines = 1
                        THEN {"kills", "items", "secrets"} ELSE {})
                  \cup (IF playback_cmd_lines(pb_in, pb_in.wad[demo_playback.wad])
                               [demo_playback.cmd].solo_net
                        THEN {"is_solo_net"} ELSE {})
            /\ UNCHANGED playback_failed
       ELSE /\ playback_failed' = TRUE
            /\ UNCHANGED pb_data
    /\ UNCHANGED <<pb_in, wad_guesses, pb_wi, pb_ci, fs, demo_playback, invoked,
                   outsidePlayback>>

RunCmdStep == \E lines \in 0..MaxLines : RunCmd(lines)

NextPlayback == NextWadGuess \/ GuessesExhausted \/ RunCmdStep \/ FinishPlayback

(***************************************************************************)
(* Batch drivers: handle_demos (src/doomworld_downloader.py) and           *)
(* DemoProcessor.process_demos (src/doomworld_downloader/demo_processor.py)*)
(***************************************************************************)
Drivers == {"handle_demos", "DemoProcessor"}
NoResult == "none"

\* the demo files of the batch: <<download, demo file>>
LmpsOf(inp) == {l \in (1..MaxDemos) \X (1..MaxLmps) : l[2] <= inp.lmps[l[1]]}

\* a batch of MaxDemos zip downloads, each with one demo file or, for a demo
\* pack, several
InitBatch ==
    /\ bt_in \in [driver : Drivers, skip_playback : BOOLEAN,
                  skip_demo_pack_issues : BOOLEAN, has_post : BOOLEAN,
                  has_textfile : BOOLEAN, lmps : [1..MaxDemos -> 1..MaxLmps]]
    /\ bt_pc = "run"
    /\ bt_i = 1
    /\ bt_j = 1
    /\ bt_facts = [l \in LmpsOf(bt_in) |-> {}]
    /\ bt_parsed = {}
    /\ bt_records = {}
    /\ bt_result = NoResult
    /\ process_failed = FALSE
    /\ bt_analyzed = {}
    /\ bt_failed = {}
    /\ bt_extracted = {}

\* ZipFile.extractall(path=zip_extract_dir, ...): handle_demos line 110 and
\* DemoZipInfo.process_zip line 217, before the demo files of the download
\* are gone through
extractall(dirs, download) == dirs \cup {download}

\* shutil.rmtree(zip_extract_dir)
rmtree(dirs, download) == dirs \ {download}

\* the inner and outer loop counters after one demo file
NextLmp ==
    IF bt_j < bt_in.lmps[bt_i]
    THEN bt_j' = bt_j + 1 /\ bt_i' = bt_i
    ELSE bt_j' = 1 /\ bt_i' = bt_i + 1

\* handle_demos, lines 149-198: one demo file of the current download, and
\* after its last one dump_demo_jsons; failed is the playback_failed of its
\* PlaybackData
HandleLmp(failed) ==
    /\ bt_in.driver = "handle_demos"
    /\ bt_pc = "run"
    /\ bt_i <= MaxDemos
    /\ LET l == <<bt_i, bt_j>>
           is_demo_pack == bt_in.lmps[bt_i] > 1
       IN  /\ bt_analyzed' = bt_analyzed \cup {l}
           /\ bt_failed' = IF failed THEN bt_failed \cup {l} ELSE bt_failed
           /\ IF \/ ~bt_in.skip_playback /\ failed
                 \/ is_demo_pack /\ bt_in.skip_demo_pack_issues
              THEN /\ bt_result' = "False"
                   /\ bt_pc' = "returned"
                   /\ bt_extracted' = extractall(bt_extracted, bt_i)
                   /\ UNCHANGED <<bt_i, bt_j, bt_facts, bt_parsed, bt_records>>
              ELSE /\ bt_facts' = [bt_facts EXCEPT ![l] =
                          {"lmp"}
                          \cup (IF failed THEN {} ELSE {"playback"})
                          \cup (IF bt_in.has_textfile THEN {"textfile"} ELSE {})
                          \cup (IF bt_in.has_post THEN {"post"} ELSE {})]
                   /\ IF bt_j < bt_in.lmps[bt_i]
                      THEN /\ bt_parsed' = bt_parsed \cup {l}
                           /\ bt_extracted' = extractall(bt_extracted, bt_i)
                           /\ UNCHANGED bt_records
                      ELSE /\ bt_parsed' = {}
                           /\ bt_records' = bt_records \cup bt_parsed \cup {l}
                           /\ bt_extracted' =
                                  rmtree(extractall(bt_extracted, bt_i), bt_i)
                   /\ NextLmp
                   /\ UNCHANGED <<bt_result, bt_pc>>
    /\ UNCHANGED <<bt_in, process_failed, outsideBatch>>

\* handle_demos, lines 149-194: parse_data_manager of the constructor raises
\* (the KeyError of an entry that needs attention, the ValueError of a skill
\* note); nothing in handle_demos or main catches it
HandleRaise(failed) ==
    /\ bt_in.driver = "handle_demos"
    /\ bt_pc = "run"
    /\ bt_i <= MaxDemos
    /\ LET l == <<bt_i, bt_j>>
           is_demo_pack == bt_in.lmps[bt_i] > 1
       IN  /\ ~(\/ ~bt_in.skip_playback /\ failed
                \/ is_demo_pack /\ bt_in.skip_demo_pack_issues)
           /\ bt_analyzed' = bt_analyzed \cup {l}
           /\ bt_failed' = IF failed THEN bt_failed \cup {l} ELSE bt_failed
           /\ bt_facts' = [bt_facts EXCEPT ![l] =
                  {"lmp"}
                  \cup (IF failed THEN {} ELSE {"playback"})
                  \cup (IF bt_in.has_textfile THEN {"textfile"} ELSE {})
                  \cup (IF bt_in.has_post THEN {"post"} ELSE {})]
           /\ bt_extracted' = extractall(bt_extracted, bt_i)
           /\ bt_pc' = "raised"
    /\ UNCHANGED <<bt_in, bt_i, bt_j, bt_parsed, bt_records, bt_result,
                   process_failed, outsideBatch>>

\* handle_demos, line 200
HandleReturn ==
    /\ bt_in.driver = "handle_demos"
    /\ bt_pc = "run"
    /\ bt_i > MaxDemos
    /\ bt_result' = "True"
    /\ bt_pc' = "returned"
    /\ UNCHANGED <<bt_in, bt_i, bt_j, bt_facts, bt_parsed, bt_records,
                   process_failed, bt_analyzed, bt_failed, bt_extracted,
                   outsideBatch>>

\* DemoProcessor.process_demos, lines 92-121, with DemoInfo.process_post_data,
\* process_textfile, process_lmp and process_additional_demo_info: one demo
\* file
ProcessLmp(failed) ==
    /\ bt_in.driver = "DemoProcessor"
    /\ bt_pc = "run"
    /\ bt_i <= MaxDemos
    /\ LET l == <<bt_i, bt_j>>
           stop == ~bt_in.skip_playback /\ failed
       IN  /\ bt_analyzed' = bt_analyzed \cup {l}
           /\ bt_failed' = IF failed THEN bt_failed \cup {l} ELSE bt_failed
           /\ bt_facts' = [bt_facts EXCEPT ![l] =
                  (IF bt_in.has_post THEN {"post"} ELSE {})
                  \cup (IF bt_in.has_textfile THEN {"textfile"} ELSE {})
                  \cup (IF stop THEN {} ELSE {"lmp"})
                  \cup (IF stop \/ failed THEN {} ELSE {"playback"})
                  \cup {"extra_info"}]
           /\ process_failed' = (process_failed \/ stop)
           /\ bt_records' = IF stop THEN bt_records ELSE bt_records \cup {l}
    /\ bt_extracted' = extractall(bt_extracted, bt_i)
    /\ NextLmp
    /\ UNCHANGED <<bt_in, bt_pc, bt_parsed, bt_result, outsideBatch>>

\* DemoProcessor.process_demos: the loop is exhausted
ProcessReturn ==
    /\ bt_in.driver = "DemoProcessor"
    /\ bt_pc = "run"
    /\ bt_i > MaxDemos
    /\ bt_pc' = "returned"
    /\ UNCHANGED <<bt_in, bt_i, bt_j, bt_facts, bt_parsed, bt_records, bt_result,
                   process_failed, bt_analyzed, bt_failed, bt_extracted,
                   outsideBatch>>

HandleLmpStep == \E failed \in BOOLEAN : HandleLmp(failed)
ProcessLmpStep == \E failed \in BOOLEAN : ProcessLmp(failed)
HandleRaiseStep == \E failed \in BOOLEAN : HandleRaise(failed)

NextBatch ==
    \/ HandleLmpStep
    \/ HandleRaiseStep
    \/ HandleReturn
    \/ ProcessLmpStep
    \/ ProcessReturn

(***************************************************************************)
(* Record assemblers: DemoJson (src/doomworld_downloader/                  *)
(* demo_json_dumper.py) and DemoJsonConstructor (src/doomworld_downloader/ *)
(* demo_json_constructor.py)                                               *)
(***************************************************************************)
NEEDS_ATTENTION_PLACEHOLDER == "UNKNOWN"
Assemblers == {"DemoJson", "DemoJsonConstructor"}

KEY_TO_JSON_MAP(key) ==
    CASE key = "is_tas" -> "tas"
      [] key = "is_solo_net" -> "solo_net"
      [] key = "num_players" -> "guys"
      [] key = "source_port" -> "engine"
      [] key = "player_list" -> "players"
      [] OTHER -> key
KEY_TO_DEFAULT_MAP == [tas |-> "False", solo_net |-> "False", version |-> "0"]
\* REQUIRED_KEYS, restricted to the keys of the model: the other required
\* keys are taken to be in the record already
REQUIRED_KEYS == <<"tas", "solo_net", "version", "level", "category">>

\* the fields the sources of the model insert, and the values of each
AsFields == {"category", "is_tas", "level"}
AsValues == {"NoMo", "NoMo 100S", "Other", "True", "Map 01",
             NEEDS_ATTENTION_PLACEHOLDER}
AsValuesOf(field) ==
    CASE field = "category" -> {"NoMo", "NoMo 100S", "Other"}
      [] field = "is_tas" -> {"True"}
      [] OTHER -> {"Map 01", NEEDS_ATTENTION_PLACEHOLDER}
AsSources == {"playback", "textfile"}
\* the note strings of the model
AsNotes == {"Uses turbo", "Incompatible"}
\* the stats of the levelstat lines of the playback: one level, without or
\* with monsters and secrets
AsStats ==
    {<<[kills |-> k, secrets |-> x]>> : k \in {"0/0", "5/5"}, x \in {"0/0", "2/2"}}

\* a key the record does not hold
NoKey == "absent"
EmptyDict == [k \in {"category", "tas", "level", "solo_net", "version"} |-> NoKey]

\* the values of an Evaluation, and the only one of a settled Evaluation:
\* next(iter(evaluation.possible_values.keys()))
ValuesOf(evaluation) == DOMAIN evaluation.possible_values
first_value(evaluation) == CHOOSE v \in ValuesOf(evaluation) : TRUE

\* playback_category and textfile_category of the category handling; every
\* source of the model reports one value of a field, so that at most one
\* value has each source
playback_category(evaluation) ==
    LET vs == {v \in ValuesOf(evaluation) :
                  InSeq("playback", evaluation.possible_values[v])}
    IN  IF vs = {} THEN PyNone ELSE CHOOSE v \in vs : TRUE
textfile_category(evaluation) ==
    LET vs == {v \in ValuesOf(evaluation) :
                  /\ ~InSeq("playback", evaluation.possible_values[v])
                  /\ InSeq("textfile", evaluation.possible_values[v])}
    IN  IF vs = {} THEN PyNone ELSE CHOOSE v \in vs : TRUE

no_kills(stats) == \A i \in 1..Len(stats) : stats[i].kills = "0/0"
no_secrets(stats) == \A i \in 1..Len(stats) : stats[i].secrets = "0/0"

\* the category rules of _handle_needs_attention_entry: "inferred" with the
\* category taken, "KeyError" when the stats are looked up and are not there,
\* "none" when no rule applies
inferred_category(evaluation, inp) ==
    LET pc == playback_category(evaluation)
        tc == textfile_category(evaluation)
    IN  IF \/ pc = "NoMo 100S" /\ tc = "NoMo"
           \/ pc = "NM 100S" /\ tc = "NM Speed"
           \/ pc = "Pacifist" /\ tc = "UV Speed"
        THEN [kind |-> "inferred", value |-> pc]
        ELSE IF ~inp.has_stats
        THEN [kind |-> "KeyError"]
        ELSE IF no_secrets(inp.stats) /\
                   (\/ pc = "NoMo" /\ tc = "NoMo 100S"
                    \/ pc = "NM Speed" /\ tc = "NM 100S")
        THEN [kind |-> "inferred", value |-> pc]
        ELSE IF /\ no_secrets(inp.stats) /\ no_kills(inp.stats)
                /\ pc = "UV Speed" /\ tc = "UV Max"
        THEN [kind |-> "inferred", value |-> pc]
        ELSE [kind |-> "none"]

\* the state of one assembly: the record under construction, the flags, and
\* whether an exception left the assembly
AsState(dict, issue, cheated, tags) ==
    [dict |-> dict, has_issue |-> issue, maybe_cheated |-> cheated,
     has_tags |-> tags, raised |-> FALSE]

\* _handle_needs_attention_entry / _handle_needs_attention_entries
handle_needs_attention_entry(st, key_to_insert, evaluation, inp) ==
    LET inf == IF evaluation.key = "category"
               THEN inferred_category(evaluation, inp)
               ELSE [kind |-> "none"]
    IN  IF inf.kind = "inferred"
        THEN [st EXCEPT !.dict[key_to_insert] = inf.value]
        ELSE IF inf.kind = "KeyError"
        THEN [st EXCEPT !.raised = TRUE]
        ELSE [st EXCEPT
                 !.dict[key_to_insert] =
                     IF Cardinality(ValuesOf(evaluation)) = 1
                     THEN first_value(evaluation)
                     ELSE NEEDS_ATTENTION_PLACEHOLDER,
                 !.has_issue = TRUE,
                 !.maybe_cheated = (@ \/ evaluation.key = "is_tas")]

\* the body of the loop over the data manager
parse_evaluation(st, evaluation, inp) ==
    IF evaluation.needs_attention
    THEN handle_needs_attention_entry(st, KEY_TO_JSON_MAP(evaluation.key),
                                      evaluation, inp)
    ELSE [st EXCEPT
             !.dict[KEY_TO_JSON_MAP(evaluation.key)] = first_value(evaluation),
             !.has_issue =
                 (@ \/ first_value(evaluation) = NEEDS_ATTENTION_PLACEHOLDER)]

RECURSIVE parse_evaluations(_, _, _, _)
parse_evaluations(evaluations, i, st, inp) ==
    IF i > Len(evaluations) \/ st.raised THEN st
    ELSE parse_evaluations(evaluations, i + 1,
                           parse_evaluation(st, evaluations[i], inp), inp)

\* the loop over KEY_TO_DEFAULT_MAP
fill_defaults(st) ==
    [st EXCEPT !.dict =
        [k \in DOMAIN @ |->
            IF @[k] = NoKey /\ k \in DOMAIN KEY_TO_DEFAULT_MAP
            THEN KEY_TO_DEFAULT_MAP[k] ELSE @[k]]]

fill_required_unflagged(st) ==
    [st EXCEPT
        !.dict = [k \in DOMAIN @ |->
                     IF InSeq(k, REQUIRED_KEYS) /\ @[k] = NoKey
                     THEN NEEDS_ATTENTION_PLACEHOLDER ELSE @[k]]]
\* the loop over REQUIRED_KEYS
fill_required(st) ==
    LET missing == {k \in DOMAIN st.dict :
                       InSeq(k, REQUIRED_KEYS) /\ st.dict[k] = NoKey}
    IN  [st EXCEPT
            !.dict = [k \in DOMAIN @ |->
                         IF k \in missing THEN NEEDS_ATTENTION_PLACEHOLDER
                         ELSE @[k]],
            !.has_issue = (@ \/ missing # {})]

\* the test of the category "Other"
flag_other(st) == [st EXCEPT !.has_issue = (@ \/ st.dict["category"] = "Other")]

\* SKILL_CATEGORY_NOTE_RE = '^Skill \d .+$', on the strings of the model
SKILL_CATEGORY_NOTE_RE_match(string) == string \in {"Skill 3 max", "Skill 2 speed"}
MISC_CATEGORY_NOTES ==
    {"-altdeath", "-coop_spawns", "-fast", "-nomonsters", "-respawn", "-solo-net"}
MISC_NOTES(assembler) ==
    {"Also Reality", "Also Almost Reality", "Uses turbo",
     IF assembler = "DemoJson" THEN "Uses -longtics" ELSE "Uses longtics",
     "Also Pacifist", "Plays back with forced -complevel 5"}
\* the note that sends the category to "Other" in _construct_misc_tags
LongticsNote(assembler) ==
    IF assembler = "DemoJson" THEN "Uses -longtics" ELSE "Uses longtics"
\* note_string.split('Other Movie ')[1]
other_movie_of(note_string) ==
    IF note_string = "Other Movie Map 01 - Map 30" THEN "Map 01 - Map 30" ELSE ""

\* _construct_other_movie_tag
construct_other_movie_tag(note_strings) ==
    LET movies == {n \in note_strings : other_movie_of(n) # ""}
    IN  IF movies = {} THEN ""
        ELSE IF "Does not visit secret maps." \in note_strings
        THEN other_movie_of(CHOOSE n \in movies : TRUE)
                 \o ". Does not visit secret maps."
        ELSE other_movie_of(CHOOSE n \in movies : TRUE)

\* what the test of the loop of _construct_skill_tag is applied to: the
\* string literal 'note_string', whatever the note
skill_note_tested(note_string) == "note_string"

\* _construct_skill_tag for note strings with one skill note and one note of
\* MISC_CATEGORY_NOTES at most: the tag, the category left in the record
\* and whether RuntimeError is raised
construct_skill_tag(dict_category, note_strings) ==
    LET skill_notes ==
            {n \in note_strings :
                SKILL_CATEGORY_NOTE_RE_match(skill_note_tested(n))}
        category == IF skill_notes = {} THEN dict_category
                    ELSE CHOOSE n \in skill_notes : TRUE
        incompatible == "Incompatible" \in note_strings
        misc == note_strings \cap MISC_CATEGORY_NOTES
        additional_info ==
            IF misc = {} THEN "" ELSE " with " \o (CHOOSE n \in misc : TRUE)
        skill_tag ==
            (IF incompatible THEN "Incompatible " \o category ELSE category)
                \o additional_info
        new_category == IF incompatible THEN "Other" ELSE dict_category
    IN  [raised |-> skill_notes # {} /\ dict_category # "Other",
         category |-> new_category,
         tag |-> IF skill_tag # "" /\ skill_tag # new_category
                 THEN skill_tag ELSE ""]

\* _construct_misc_tags: the tags, whether the category becomes "Other" and
\* whether has_issue is set
construct_misc_tags(assembler, note_strings) ==
    LET misc_tags == note_strings \cap MISC_NOTES(assembler)
    IN  [tags |-> misc_tags,
         other |-> LongticsNote(assembler) \in misc_tags,
         issue |-> \/ "Uses turbo" \in misc_tags
                   \/ assembler = "DemoJson" /\ "Uses -longtics" \in misc_tags]

\* the text of the tag: the movie part, the skill part, the misc part
NoTag == [movie |-> "", skill |-> "", misc |-> {}]
final_tag(assembler, dict_category, note_strings) ==
    [movie |-> construct_other_movie_tag(note_strings),
     skill |-> construct_skill_tag(dict_category, note_strings).tag,
     misc |-> construct_misc_tags(assembler, note_strings).tags]

\* _construct_tags with _construct_skill_tag and _construct_misc_tags
construct_tags(assembler, st, note_strings) ==
    IF note_strings = {} THEN st
    ELSE LET skill == construct_skill_tag(st.dict["category"], note_strings)
             misc == construct_misc_tags(assembler, note_strings)
         IN  IF skill.raised THEN [st EXCEPT !.raised = TRUE]
             ELSE [st EXCEPT
                      !.dict["category"] =
                          IF misc.other THEN "Other" ELSE skill.category,
                      !.has_issue = (@ \/ misc.issue),
                      !.has_tags = TRUE]

parse_demo_info_required_first(evaluations, st, inp) ==
    LET parsed == parse_evaluations(evaluations, 1, st, inp)
    IN  IF parsed.raised THEN parsed
        ELSE construct_tags(inp.assembler,
                            flag_other(fill_defaults(fill_required(parsed))),
                            inp.note_strings)
\* DemoJson._parse_demo_info / DemoJsonConstructor.parse_data_manager
parse_demo_info(evaluations, st, inp) ==
    LET parsed == parse_evaluations(evaluations, 1, st, inp)
    IN  IF parsed.raised THEN parsed
        ELSE construct_tags(inp.assembler,
                            flag_other(fill_required(fill_defaults(parsed))),
                            inp.note_strings)

\* the facts the sources of the model report
AsFacts ==
    {f \in [field : AsFields, value : AsValues, certainty : Certainties,
            source : AsSources] :
        /\ f.value \in AsValuesOf(f.field)
        /\ f.field = "is_tas" => f.source = "textfile"
        /\ f.field = "level" => f.source = "playback" /\ f.certainty = CERTAIN}

\* DemoJson.__init__ / DemoJsonConstructor.__init__, and the DataManager of
\* the demo before the sources populate it
InitAssembly ==
    /\ as_in \in
          {i \in [assembler : Assemblers, note_strings : SUBSET AsNotes,
                  has_stats : BOOLEAN, stats : AsStats] :
              i.assembler = "DemoJson" => i.has_stats}
    /\ as_pc = "populate"
    /\ demo_dict = EmptyDict
    /\ has_issue = FALSE
    /\ maybe_cheated = FALSE
    /\ has_tags = FALSE
    /\ dm_keys = <<>>
    /\ dm_data = [f \in AsFields |->
                     [c \in Certainties |-> [v \in AsValues |-> ValueCounter]]]
    /\ inserted = {}
    /\ nInserts = 0
    /\ lastEval = NoEval
    /\ prevEval = NoEval
    /\ conflictAt = [f \in AsFields |-> 0]

\* populate_data_manager of a source: one DataManager.insert; a source reports
\* one value of a field
Populate(fact) ==
    /\ as_pc = "populate"
    /\ \A c \in Certainties, v \in AsValues \ {fact.value} :
          ~InSeq(fact.source, dm_data[fact.field][c][v].sources)
    /\ Insert(fact.field, fact.value, fact.certainty, fact.source)

\* DemoJson.from_demo_info / DemoJsonConstructor.parse_data_manager
Assemble ==
    /\ as_pc = "populate"
    /\ LET st == parse_demo_info(
                     DM_iter,
                     AsState(demo_dict, has_issue, maybe_cheated, has_tags),
                     as_in)
       IN  /\ as_pc' = IF st.raised THEN "raised" ELSE "done"
           /\ demo_dict' = IF st.raised THEN demo_dict ELSE st.dict
           /\ has_issue' = st.has_issue
           /\ maybe_cheated' = st.maybe_cheated
           /\ has_tags' = st.has_tags
    /\ UNCHANGED <<as_in, ledgerVars, outsideAssembly>>

PopulateStep == \E fact \in AsFacts : Populate(fact)

NextAssembly == PopulateStep \/ Assemble


(***************************************************************************)
(* Demo matcher: the fuzzy matching of the DSDA entries of a demo pack to  *)
(* the demo JSONs of the pack, in main of generate_dsda_updates.py and in  *)
(* DemoUpdater.generate_update_jsons.                                      *)
(***************************************************************************)
Matchers == {"main", "DemoUpdater"}
MATCH_KEY_MAPPING == <<"players", "level", "time", "wad", "category">>

\* a time is the list of the parts of its string around the dots
Times == {<<"1:00">>, <<"1:00", "50">>, <<"2:00">>}
\* json_value.split('.')[0]
split_dot_first(time) == <<time[1]>>

\* the demo JSONs and the DSDA entries, by the fields the matching reads
AllJsons ==
    [players : {"p1", "p2"}, level : {"l1", "l2"}, time : Times,
     wad : {"w1", "w2"}, category : {"c1", "c2"}]
Json0 == [players |-> "p1", level |-> "l1", time |-> <<"1:00">>,
          wad |-> "w1", category |-> "c1"]
\* the demo JSONs of the runs: those that differ from Json0 in one field
Jsons ==
    {j \in AllJsons :
        Cardinality({i \in DOMAIN MATCH_KEY_MAPPING :
                        j[MATCH_KEY_MAPPING[i]] # Json0[MATCH_KEY_MAPPING[i]]}) <= 1}
\* the DSDA entries of the runs
Entries ==
    {Json0, [Json0 EXCEPT !.category = "c2"], [Json0 EXCEPT !.time = <<"1:00", "50">>]}

SeqsUpTo(S, n) == UNION {[1..k -> S] : k \in 0..n}

\* match_key = [demo_dict['player_list'], dsda_info['level'], ...]
match_key_of(entry) == [i \in DOMAIN MATCH_KEY_MAPPING |-> entry[MATCH_KEY_MAPPING[i]]]

\* the inner loop over enumerate(match_key) in main: any difference ends it
main_found(demo_json, key) ==
    \A idx \in 1..Len(key) : demo_json[MATCH_KEY_MAPPING[idx]] = key[idx]
\* the inner loop in DemoUpdater.generate_update_jsons: a difference ends it
\* only under the test of the time
updater_found(demo_json, key) ==
    \A idx \in 1..Len(key) :
        LET json_key == MATCH_KEY_MAPPING[idx]
            json_value == demo_json[json_key]
        IN  json_value # key[idx] =>
                ~(json_key = "time" /\ split_dot_first(json_value) # key[idx])

found(matcher, demo_json, key) ==
    IF matcher = "main" THEN main_found(demo_json, key)
    ELSE updater_found(demo_json, key)

\* the indexes of the demo JSONs of a pool the loop finds for a key
FoundIn(matcher, pool, key) ==
    {j \in 1..Len(pool) : found(matcher, pool[j], key)}
\* for demo_json in demo_jsons: ... break: the first one found
first_found(matcher, pool, key) ==
    CHOOSE j \in FoundIn(matcher, pool, key) :
        \A m \in FoundIn(matcher, pool, key) : j <= m

\* list.remove(matching_demo_json): removes the first equal element
list_remove(pool, x) ==
    LET j == CHOOSE m \in 1..Len(pool) :
                 pool[m] = x /\ \A n \in 1..(m - 1) : pool[n] # x
    IN  [m \in 1..(Len(pool) - 1) |-> IF m < j THEN pool[m] ELSE pool[m + 1]]

\* check_demo_for_updates: the keys whose values differ
check_demo_for_updates(demo_json, entry) ==
    {k \in {"level", "time", "wad", "category"} : entry[k] # demo_json[k]}

NoJson == [players |-> "None"]

InitMatcher ==
    /\ mt_in \in [matcher : Matchers,
                  demo_list : SeqsUpTo(Entries, MaxEntries) \ {<<>>}]
    /\ demo_jsons \in SeqsUpTo(Jsons, MaxJsons)
       \* DemoUpdater skips a location without demo JSONs and compares a
       \* single entry with a single JSON directly
    /\ mt_in.matcher = "DemoUpdater" =>
          /\ demo_jsons # <<>>
          /\ ~(Len(mt_in.demo_list) = 1 /\ Len(demo_jsons) = 1)
    /\ mt_pc = "match"
    /\ mt_i = 1
    /\ match_key = match_key_of(mt_in.demo_list[1])
    /\ found_match = FALSE
    /\ matching_demo_json = NoJson
    /\ mt_out = <<>>

\* one pass of the while loop: the for loop over the demo JSONs, then
\* match_key = match_key[:-1] when none was found
TryKey ==
    /\ mt_pc = "match"
    /\ match_key # <<>>
    /\ LET fnd == FoundIn(mt_in.matcher, demo_jsons, match_key)
       IN  IF fnd # {}
           THEN /\ found_match' = TRUE
                /\ matching_demo_json' =
                       demo_jsons[first_found(mt_in.matcher, demo_jsons, match_key)]
                /\ mt_pc' = "matched"
                /\ UNCHANGED match_key
           ELSE /\ found_match' = FALSE
                /\ match_key' = SubSeq(match_key, 1, Len(match_key) - 1)
                /\ mt_pc' = IF Len(match_key) = 1 THEN "matched" ELSE "match"
                /\ UNCHANGED matching_demo_json
    /\ UNCHANGED <<mt_in, demo_jsons, mt_i, mt_out>>
    /\ UNCHANGED outsideMatcher

\* after the while loop: the update check and the removal of the matching
\* JSON, or the warning; then the next DSDA entry
Settle ==
    /\ mt_pc = "matched"
    /\ LET entry == mt_in.demo_list[mt_i]
       IN  IF found_match
           THEN /\ mt_out' = Append(mt_out,
                       [kind |-> "matched", pool |-> demo_jsons,
                        json |-> matching_demo_json, key |-> match_key,
                        update |-> check_demo_for_updates(matching_demo_json, entry)])
                /\ demo_jsons' = list_remove(demo_jsons, matching_demo_json)
           ELSE /\ mt_out' = Append(mt_out,
                       [kind |-> "not matched", pool |-> demo_jsons])
                /\ UNCHANGED demo_jsons
    /\ IF mt_i < Len(mt_in.demo_list)
       THEN /\ mt_i' = mt_i + 1
            /\ match_key' = match_key_of(mt_in.demo_list[mt_i + 1])
            /\ found_match' = FALSE
            /\ matching_demo_json' = NoJson
            /\ mt_pc' = "match"
       ELSE /\ mt_pc' = "done"
            /\ UNCHANGED <<mt_i, match_key, found_match, matching_demo_json>>
    /\ UNCHANGED mt_in
    /\ UNCHANGED outsideMatcher

NextMatcher == TryKey \/ Settle


(***************************************************************************)
(* LMP parser: LMPData.analyze.  A file is the list of its pieces: single  *)
(* bytes and, in the footer, the bytes of one whole line of text.          *)
(***************************************************************************)
END_OF_INPUTS == "x80"
FORM == <<"F", "O", "R", "M">>
\* lines of footer text, with their line end
PortLine == "PrBoom-Plus 2.5.1.4"
CmdLine == "-iwad doom2.wad -solo-net"
FooterLines == {PortLine, CmdLine}

Zeros(n) == [i \in 1..n |-> "x00"]
\* the first pieces of the files: nothing, a cut signature, the signature of
\* ZDoom, a vanilla header start
Prefixes == {<<>>, <<"F", "O", "R">>, FORM, <<"m", "x04", "x01", "x01">>}
\* the pieces up to the end of the 22 bytes of the header: none, or 18 with
\* the demo compat version in the last two
Middles == {<<>>, Zeros(16) \o <<"x01", "x0B">>, Zeros(16) \o <<"x02", "x00">>}
TailPieces == {END_OF_INPUTS, "a"} \cup FooterLines
LmpFiles ==
    {p \o m \o t : p \in Prefixes, m \in Middles,
                   t \in UNION {[1..k -> TailPieces] : k \in 0..MaxTail}}

PlayerSlots == 1..4
VERSION_COMPLEVEL_MAP(version) ==
    CASE version = 201 -> "8" [] version = 202 -> "9" [] version = 210 -> "10"
      [] version = 211 -> "14" [] version = 212 -> "15" [] version = 213 -> "16"
      [] version = 214 -> "17" [] version = 221 -> "21" [] OTHER -> PyNone
PORT_FOOTER_TO_DSDA_MAP(name) ==
    CASE name = "PrBoom-Plus" -> "PRBoom" [] name = "dsda-doom" -> "DSDA-Doom"
      [] OTHER -> name

\* what parse_lmp prints: by the run that gave output ("first": the plain
\* command, an engine: the command with --engine, "none": neither), the
\* version line and the value of every player line; with --engine=hexen a
\* player line reads "Player 1: 1 (0)"
LmpOuts ==
    [run : {"first"}, version : {109, 111, 214}, players : [PlayerSlots -> {0, 1}],
     sr50_on_turns : BOOLEAN]
    \cup [run : {"heretic", "hexen"}, version : {-1},
          players : [PlayerSlots -> {0, 1}], sr50_on_turns : BOOLEAN]
    \cup {[run |-> "none", version |-> -1, players |-> [s \in PlayerSlots |-> 0],
           sr50_on_turns |-> FALSE]}

\* self.raw_data['iwad'] after the runs of _parse_lmp
iwad_after_parse(out) ==
    IF out.run \in {"heretic", "hexen"} THEN out.run \o ".wad" ELSE PyNone
\* int(player_value) raises ValueError on "1 (0)"
int_raises(out) == out.run = "hexen"
\* _parse_key for the key "player s": whether num_players grows
counts_player(out, iwad, s) ==
    IF iwad = "hexen"
    THEN out.players[s] # 0
    ELSE IF int_raises(out) THEN TRUE  \* "1 (0)" != 0
         ELSE out.players[s] # 0
\* the loop over KEY_LIST and the lines in _parse_lmp: num_players
parse_lmp_num_players(out) ==
    IF out.run = "none" THEN 0
    ELSE Cardinality({s \in PlayerSlots : counts_player(out, iwad_after_parse(out), s)})

is_zdoom_old_signature(header) ==
    Len(header) >= 4 /\ SubSeq(header, 1, 4) = <<"Z", "D", "E", "M">>
\* LMPData._is_zdoom_or_gzdoom: self._header[:4] == b'FORM'
is_zdoom_or_gzdoom(header) ==
    Len(header) >= 4 /\ SubSeq(header, 1, 4) = FORM
\* lmp_bytes.read(22)
read_header(file) == SubSeq(file, 1, IF Len(file) < 22 THEN Len(file) ELSE 22)
\* footer_chars[::-1]
Reverse(s) == [i \in 1..Len(s) |-> s[Len(s) + 1 - i]]

\* a piece of the footer starts a line of text
AtLineStart(footer, i) == i = 1 \/ footer[i - 1] \in FooterLines
\* _parse_footer: the source port family and the facts of the command line
footer_port_family(footer) ==
    IF \E i \in 1..Len(footer) : footer[i] = PortLine /\ AtLineStart(footer, i)
    THEN PortLine ELSE ""
footer_solo_net(footer) == \E i \in 1..Len(footer) : footer[i] = CmdLine

NoPort == [kind |-> "absent"]
\* _get_source_port of a demo that is not ZDoom's
get_source_port_footer(family, raw_version) ==
    IF family # "" /\ VERSION_COMPLEVEL_MAP(raw_version) # PyNone
    THEN [kind |-> "port",
          name |-> PORT_FOOTER_TO_DSDA_MAP("PrBoom-Plus") \o " v2.5.1.4",
          complevel |-> VERSION_COMPLEVEL_MAP(raw_version)]
    ELSE NoPort

\* _parse_key for the key "sr50 on turns": whether is_tas is set
parse_lmp_is_tas(out) == out.run # "none" /\ out.sr50_on_turns

\* self.data after __init__; PyNone and NoPort stand for a key not in it
NoData == [num_players |-> 0, source_port |-> NoPort, is_solo_net |-> PyNone,
           is_tas |-> PyNone, recorded_at |-> "date"]
NoRaw == [iwad |-> PyNone, version |-> -1, source_port_family |-> ""]

InitParser ==
    /\ lp_in \in [file : LmpFiles, out : LmpOuts]
    /\ lp_pc = "start"
    /\ lp_header = <<>>
    /\ lp_footer = <<>>
    /\ lp_pos = 0
    /\ current_byte = PyNone
    /\ footer_chars = <<>>
    /\ lp_data = NoData
    /\ lp_raw = NoRaw
    /\ lp_raised = PyNone
    /\ lp_calls = {}
    /\ lp_inserted = {}

\* _get_header_and_footer up to the while loop
GetHeader ==
    /\ lp_pc = "start"
    /\ lp_header' = read_header(lp_in.file)
    /\ IF is_zdoom_or_gzdoom(read_header(lp_in.file))
       THEN /\ lp_footer' = <<>>
            /\ lp_pc' = "port"
            /\ lp_pos' = Len(read_header(lp_in.file))
            /\ UNCHANGED <<current_byte, lp_raised, lp_calls>>
       ELSE IF Len(lp_in.file) = 0
            THEN \* seek(-1, 2) before the start of the file
                 /\ lp_raised' = "OSError"
                 /\ lp_pc' = "raised"
                 /\ lp_calls' = lp_calls \cup {"scan"}
                 /\ UNCHANGED <<lp_footer, lp_pos, current_byte>>
            ELSE /\ current_byte' = lp_in.file[Len(lp_in.file)]
                 /\ lp_pos' = Len(lp_in.file)
                 /\ lp_pc' = "scan"
                 /\ lp_calls' = lp_calls \cup {"scan"}
                 /\ UNCHANGED <<lp_footer, lp_raised>>
    /\ UNCHANGED <<lp_in, footer_chars, lp_data, lp_raw>>
    /\ UNCHANGED <<lp_inserted, outsideParser>>

\* one pass of the while loop of _get_header_and_footer
ScanStep ==
    /\ lp_pc = "scan"
    /\ current_byte # END_OF_INPUTS
    /\ footer_chars' = Append(footer_chars, current_byte)
    /\ IF lp_pos - 2 < 0
       THEN \* seek(-2, 1) before the start of the file
            /\ lp_raised' = "OSError"
            /\ lp_pc' = "raised"
            /\ UNCHANGED <<lp_pos, current_byte>>
       ELSE /\ current_byte' = lp_in.file[lp_pos - 1]
            /\ lp_pos' = lp_pos - 1
            /\ UNCHANGED <<lp_pc, lp_raised>>
    /\ UNCHANGED <<lp_in, lp_header, lp_footer, lp_data, lp_raw, lp_calls>>
    /\ UNCHANGED <<lp_inserted, outsideParser>>

\* the end of the while loop and the join of the footer
EndScan ==
    /\ lp_pc = "scan"
    /\ current_byte = END_OF_INPUTS
    /\ lp_footer' = Reverse(footer_chars)
    /\ lp_pc' = "parse"
    /\ UNCHANGED <<lp_in, lp_header, lp_pos, current_byte, footer_chars, lp_data,
                   lp_raw, lp_raised, lp_calls>>
    /\ UNCHANGED <<lp_inserted, outsideParser>>

\* _parse_lmp and _parse_footer
ParseLmp ==
    /\ lp_pc = "parse"
    /\ lp_data' = [lp_data EXCEPT
           !.num_players = parse_lmp_num_players(lp_in.out),
           !.is_solo_net = IF footer_solo_net(lp_footer) THEN "True" ELSE PyNone,
           !.is_tas = IF parse_lmp_is_tas(lp_in.out) THEN "True" ELSE PyNone]
    /\ lp_raw' = [iwad |-> iwad_after_parse(lp_in.out),
                  version |-> IF lp_in.out.run = "none" THEN -1 ELSE lp_in.out.version,
                  source_port_family |-> footer_port_family(lp_footer)]
    /\ lp_calls' = lp_calls \cup {"parse_lmp", "parse_footer"}
    /\ lp_pc' = "port"
    /\ UNCHANGED <<lp_in, lp_header, lp_footer, lp_pos, current_byte, footer_chars,
                   lp_raised>>
    /\ UNCHANGED <<lp_inserted, outsideParser>>

\* _get_source_port and the end of analyze
GetSourcePort ==
    /\ lp_pc = "port"
    /\ IF is_zdoom_or_gzdoom(lp_header)
       THEN IF Len(lp_header) < 22
            THEN \* self._header[20]
                 /\ lp_raised' = "IndexError"
                 /\ lp_pc' = "raised"
                 /\ UNCHANGED lp_data
            ELSE /\ lp_data' = [lp_data EXCEPT !.source_port =
                        [kind |-> "ZDoom/GZDoom", compat |-> <<lp_header[21], lp_header[22]>>]]
                 /\ lp_pc' = "done"
                 /\ UNCHANGED lp_raised
       ELSE /\ lp_data' = [lp_data EXCEPT !.source_port =
                   get_source_port_footer(lp_raw.source_port_family, lp_raw.version)]
            /\ lp_pc' = "done"
            /\ UNCHANGED lp_raised
    /\ UNCHANGED <<lp_in, lp_header, lp_footer, lp_pos, current_byte, footer_chars,
                   lp_raw, lp_calls>>
    /\ UNCHANGED <<lp_inserted, outsideParser>>

LMP_CERTAIN_KEYS == {"is_solo_net", "num_players", "recorded_at", "source_port"}
LMP_POSSIBLE_KEYS == {"is_tas"}

\* the keys of self.data
DataKeys(data) ==
    {"num_players", "recorded_at"}
    \cup (IF data.is_solo_net # PyNone THEN {"is_solo_net"} ELSE {})
    \cup (IF data.is_tas # PyNone THEN {"is_tas"} ELSE {})
    \cup (IF data.source_port # NoPort THEN {"source_port"} ELSE {})

lmp_inserts_all_certain(data) ==
    {[key |-> k, certainty |-> CERTAIN] :
        k \in {key \in DataKeys(data) :
                  key \in LMP_CERTAIN_KEYS \cup LMP_POSSIBLE_KEYS}}

\* LMPData.populate_data_manager: the inserts into the data manager
lmp_inserts(data) ==
    {[key |-> k,
      certainty |-> IF k \in LMP_CERTAIN_KEYS THEN CERTAIN ELSE POSSIBLE] :
        k \in {key \in DataKeys(data) :
                  key \in LMP_CERTAIN_KEYS \cup LMP_POSSIBLE_KEYS}}

\* LMPData.populate_data_manager after analyze
PopulateDataManager ==
    /\ lp_pc = "done"
    /\ lp_inserted' = lmp_inserts(lp_data)
    /\ lp_pc' = "populated"
    /\ UNCHANGED <<lp_in, lp_header, lp_footer, lp_pos, current_byte, footer_chars,
                   lp_data, lp_raw, lp_raised, lp_calls, outsideParser>>

NextParser ==
    \/ GetHeader
    \/ ScanStep
    \/ EndScan
    \/ ParseLmp
    \/ GetSourcePort
    \/ PopulateDataManager


(***************************************************************************)
(* Category corrections: PlaybackData._parse_raw_data                      *)
(***************************************************************************)
\* bool(value) of a value of a level config
truthy(value) == value \notin {PyNone, "False"}

\* the level configs of the runs: tyson_only set or not as the level default
\* and inside a section for the skill "hard"
TysonSlots ==
    {[path |-> <<>>, key |-> "tyson_only"], [path |-> <<"hard">>, key |-> "tyson_only"]}
TysonCfgs ==
    {[secs |-> {sl.path : sl \in S} \ {<<>>}, leaves |-> [sl \in S |-> "True"]] :
        S \in SUBSET TysonSlots}
    \cup {[secs |-> {<<"hard">>}, leaves |-> <<>>]}

RawCategories == {"UV Max", "UV Speed", "Pacifist"}

\* lines 361-365: the category after the Tyson step
tyson_category_any_level(raw, category) ==
    IF raw.tyson_weapons /\ raw.all_kills /\ category = "UV Max"
    THEN "Tyson" ELSE category
tyson_category(raw, category) ==
    IF raw.tyson_weapons /\ raw.all_kills
    THEN IF /\ ~truthy(get_single_key_for_map(raw.map_info, "tyson_only", raw.skill,
                                              raw.game_mode, TRUE))
            /\ category = "UV Max"
         THEN "Tyson" ELSE category
    ELSE category

\* lines 404-407: Stroller over UV Speed
stroller_category(raw, category) ==
    IF raw.stroller /\ category = "UV Speed" THEN "Stroller" ELSE category
\* lines 428-439: the rules of jumpwad
jumpwad_category(raw, category) ==
    IF raw.wad = "jumpwad"
    THEN IF ~raw.all_items /\ category = "UV Max" THEN "UV Speed"
         ELSE IF category = "Pacifist" THEN "UV Speed"
         ELSE category
    ELSE category

InitRawData ==
    /\ rw_in \in [tyson_weapons : BOOLEAN, all_kills : BOOLEAN,
                  affected_levels : 1..MaxLevels, category : RawCategories,
                  map_info : TysonCfgs, skill : {PyNone, "hard"},
                  game_mode : {"single_player"}, stroller : BOOLEAN,
                  wad : {"scythe", "jumpwad"}, all_items : BOOLEAN]
    /\ rw_pc = "start"
    /\ rw_category = rw_in.category
    /\ rw_tyson = PyNone

\* _parse_raw_data up to the Tyson step
TysonStep ==
    /\ rw_pc = "start"
    /\ IF rw_in.affected_levels > 1
       THEN /\ rw_pc' = "done"
            /\ UNCHANGED rw_category
       ELSE /\ rw_pc' = "rest"
            /\ rw_category' = tyson_category(rw_in, rw_category)
    /\ rw_tyson' = rw_category'
    /\ UNCHANGED rw_in
    /\ UNCHANGED outsideRawData

\* the rest of _parse_raw_data
RestOfRawData ==
    /\ rw_pc = "rest"
    /\ rw_category' = jumpwad_category(rw_in, stroller_category(rw_in, rw_category))
    /\ rw_pc' = "done"
    /\ UNCHANGED <<rw_in, rw_tyson>>
    /\ UNCHANGED outsideRawData

NextRawData == TysonStep \/ RestOfRawData


(***************************************************************************)
(* Two replay analyses side by side (playback_parser.py): the transcripts  *)
(* are PlaybackData.LEVELSTAT_FILENAME and ANALYSIS_FILENAME, relative to  *)
(* the working directory of the process.  The steps of one analysis are    *)
(* its file operations; the steps of the two interleave.                   *)
(***************************************************************************)
ParallelDemos == {1, 2}
NoWriter == [demo |-> 0, n |-> 0]

InitParallel ==
    /\ pl_in \in [run_through_all_cmd_line_options : BOOLEAN]
    /\ pl_pc = [d \in ParallelDemos |-> "init"]
    /\ pl_n = [d \in ParallelDemos |-> 0]
    /\ pl_fs = NoWriter
    /\ pl_wrote = [d \in ParallelDemos |-> FALSE]
    /\ pl_read = [d \in ParallelDemos |-> <<>>]
    /\ pl_lost = [d \in ParallelDemos |-> FALSE]

\* PlaybackData._cleanup: os.remove of both files, OSError is passed over
cleanup(disk) == NoWriter

\* the next position of the inner loop of _playback: the next command line,
\* or the end of the loops
NextCmdPc(d) == IF pl_n[d] < MaxCmdLines THEN "cmd" ELSE "done"

\* PlaybackData.__init__, line 89
ParInit(d) ==
    /\ pl_pc[d] = "init"
    /\ pl_fs' = cleanup(pl_fs)
    /\ pl_pc' = [pl_pc EXCEPT ![d] = "cmd"]
    /\ UNCHANGED <<pl_in, pl_n, pl_wrote, pl_read, pl_lost, outsideParallel>>

\* _playback, lines 246-251: run_cmd, the engine writes its transcripts into
\* the working directory or, when the replay fails, writes nothing
ParRunCmd(d, wrote) ==
    /\ pl_pc[d] = "cmd"
    /\ pl_n' = [pl_n EXCEPT ![d] = @ + 1]
    /\ pl_fs' = IF wrote THEN [demo |-> d, n |-> pl_n[d] + 1] ELSE pl_fs
    /\ pl_wrote' = [pl_wrote EXCEPT ![d] = wrote]
    /\ pl_pc' = [pl_pc EXCEPT ![d] = "check"]
    /\ UNCHANGED <<pl_in, pl_read, pl_lost, outsideParallel>>

\* _playback, lines 257-296: os.path.isfile, the two reads and the
\* unexpected-file guard, whose `continue` goes to the next command line
ParRead(d, unexpected_file_found) ==
    /\ pl_pc[d] = "check"
    /\ pl_lost' = [pl_lost EXCEPT ![d] =
           @ \/ (pl_wrote[d] /\ pl_fs # [demo |-> d, n |-> pl_n[d]])]
    /\ IF pl_fs = NoWriter
       THEN /\ pl_pc' = [pl_pc EXCEPT ![d] = NextCmdPc(d)]
            /\ UNCHANGED pl_read
       ELSE /\ pl_read' = [pl_read EXCEPT ![d] = Append(@, pl_fs)]
            /\ pl_pc' = [pl_pc EXCEPT ![d] =
                   IF unexpected_file_found THEN NextCmdPc(d) ELSE "cleanup"]
    /\ UNCHANGED <<pl_in, pl_n, pl_fs, pl_wrote, outsideParallel>>

\* _playback, lines 298-305: the playback is kept, _cleanup, and the loops
\* are left unless every command line is to be run through
ParCleanup(d) ==
    /\ pl_pc[d] = "cleanup"
    /\ pl_fs' = cleanup(pl_fs)
    /\ pl_pc' = [pl_pc EXCEPT ![d] =
           IF pl_in.run_through_all_cmd_line_options
           THEN NextCmdPc(d) ELSE "done"]
    /\ UNCHANGED <<pl_in, pl_n, pl_wrote, pl_read, pl_lost, outsideParallel>>

ParInitStep == \E d \in ParallelDemos : ParInit(d)
ParRunCmdStep == \E d \in ParallelDemos, wrote \in BOOLEAN : ParRunCmd(d, wrote)
ParReadStep == \E d \in ParallelDemos, u \in BOOLEAN : ParRead(d, u)
ParCleanupStep == \E d \in ParallelDemos : ParCleanup(d)

NextParallel == ParInitStep \/ ParRunCmdStep \/ ParReadStep \/ ParCleanupStep


(***************************************************************************)
(* Movie type detection: PlaybackData._detect_movie_type and               *)
(* _has_required_secret_maps (playback_parser.py), WadMapListInfo.get_key  *)
(* (wad.py)                                                                *)
(***************************************************************************)
ALL_SECRETS_CATEGORIES ==
    {"UV Max", "UV Fast", "UV Respawn", "NM 100S", "NoMo 100S", "SM Max", "BP Max",
     "Skill 3 Max", "Skill 3 Fast", "Skill 3 Respawn", "Skill 3 100S",
     "Skill 3 NoMo 100S", "Skill 2 Max", "Skill 2 Fast", "Skill 2 Respawn",
     "Skill 2 100S", "Skill 2 NoMo 100S", "Skill 1 Max", "Skill 1 Fast",
     "Skill 1 Respawn", "Skill 1 100S", "Skill 1 NoMo 100S"}
ALL_KILLS_CATEGORIES ==
    {"UV Max", "UV Fast", "UV Respawn", "UV Tyson", "Tyson", "Skill 3 Max",
     "Skill 3 Fast", "Skill 3 Respawn", "Skill 3 Tyson", "Skill 2 Max",
     "Skill 2 Fast", "Skill 2 Respawn", "Skill 2 Tyson", "Skill 1 Max",
     "Skill 1 Fast", "Skill 1 Respawn", "Skill 1 Tyson"}

\* a key of the map list info that is None
NoRange == <<>>
D2ALL_DEFAULT == <<"Map 01", "Map 30">>
D2ALL_IWADS == {"doom2", "plutonia", "tnt"}
EPISODE_DEFAULTS(iwad) ==
    CASE iwad = "doom" -> <<<<"E1M1", "E1M8">>, <<"E2M1", "E2M8">>,
                            <<"E3M1", "E3M8">>, <<"E4M1", "E4M8">>>>
      [] iwad \in D2ALL_IWADS -> <<<<"Map 01", "Map 10">>, <<"Map 11", "Map 20">>,
                                   <<"Map 21", "Map 30">>>>
      [] OTHER -> <<>>
\* the secret exits as pairs <<map with the exit, map the exit goes to>>
SECRET_EXIT_DEFAULTS(iwad) ==
    CASE iwad = "doom" -> {<<"E1M3", "E1M9">>, <<"E2M5", "E2M9">>,
                           <<"E3M6", "E3M9">>, <<"E4M2", "E4M9">>}
      [] iwad \in D2ALL_IWADS -> {<<"Map 15", "Map 31">>, <<"Map 31", "Map 32">>}
      [] OTHER -> {}

\* the maps of the levelstats
MovieMaps == {"Map 01", "Map 10", "Map 15", "Map 30", "Map 31", "Map 32",
              "E2M1", "E2M8"}
\* the secret maps that a level config may mark as nomo_map
NomoMaps == {"Map 31", "Map 32"}
MovieCategories == {"UV Speed", "UV Max", "Tyson", "NM 100S"}

\* WadMapListInfo.get_key for the keys of the detection: what the config
\* sets (a key set to null gives None), else the built-in default
MapListInfos ==
    [iwad : {"doom2"}, d2all : {D2ALL_DEFAULT, NoRange}, d1all : {NoRange},
     episodes : {EPISODE_DEFAULTS("doom2")},
     secret_exits : {SECRET_EXIT_DEFAULTS("doom2"), {<<"Map 15", "Map 31">>}, {}}]
    \cup [iwad : {"doom"}, d2all : {NoRange}, d1all : {NoRange, <<"E2M1", "E2M8">>},
          episodes : {<<<<"E2M1", "E2M8">>>>}, secret_exits : {{}}]

\* the levelstats of MaxMaps lines at most, every map once
MapLists ==
    {l \in UNION {[1..n -> MovieMaps] : n \in 2..MaxMaps} :
        \A i, j \in 1..Len(l) : i # j => l[i] # l[j]}

\* secret_exits.values()
secret_maps_of(wad) == {e[2] : e \in wad.secret_exits}

\* the loop over map_list, lines 610-616, and the fallback of lines 619-621
NonSecretIdx(wad, map_list) ==
    {i \in 1..Len(map_list) : map_list[i] \notin secret_maps_of(wad)}
Min(S) == CHOOSE x \in S : \A y \in S : x <= y
Max(S) == CHOOSE x \in S : \A y \in S : x >= y
first_non_secret_map(wad, map_list) ==
    IF NonSecretIdx(wad, map_list) = {} THEN map_list[1]
    ELSE map_list[Min(NonSecretIdx(wad, map_list))]
last_non_secret_map(wad, map_list) ==
    IF NonSecretIdx(wad, map_list) = {} THEN map_list[Len(map_list)]
    ELSE map_list[Max(NonSecretIdx(wad, map_list))]

has_required_secret_maps_no_exemption(wad, map_list, category, nomo) ==
    IF category \notin ALL_SECRETS_CATEGORIES /\ category \notin ALL_KILLS_CATEGORIES
    THEN TRUE
    ELSE \A e \in wad.secret_exits : InSeq(e[1], map_list) => InSeq(e[2], map_list)

\* PlaybackData._has_required_secret_maps; nomo holds the secret maps whose
\* level config gives a true nomo_map
has_required_secret_maps(wad, map_list, category, nomo) ==
    IF category \notin ALL_SECRETS_CATEGORIES /\ category \notin ALL_KILLS_CATEGORIES
    THEN TRUE
    ELSE IF wad.secret_exits = {} THEN TRUE
    ELSE LET secret_maps ==
                 {e[2] : e \in {x \in wad.secret_exits :
                     /\ InSeq(x[1], map_list)
                     /\ \/ category \in ALL_SECRETS_CATEGORIES
                        \/ x[2] \notin nomo}}
         IN  \A m \in secret_maps : InSeq(m, map_list)

\* PlaybackData.DOOM_1_MAP_RE: the episode digit of ExMy, "" when no match
DOOM_1_MAP_RE(map) ==
    IF map \in {"E1M1", "E1M8"} THEN "1"
    ELSE IF map \in {"E2M1", "E2M8"} THEN "2"
    ELSE ""
IdxPlusOne(idx) == CASE idx = 1 -> "1" [] idx = 2 -> "2" [] idx = 3 -> "3"
                     [] OTHER -> "4"
\* the loop over the episodes, lines 635-642: the last episode that matches
\* sets the level; idx is the place in the list, counted from 1
episode_level(episodes, map_range) ==
    LET hits == {i \in 1..Len(episodes) : episodes[i] = map_range}
    IN  IF hits = {} THEN PyNone
        ELSE "Episode " \o (IF DOOM_1_MAP_RE(map_range[1]) # ""
                            THEN DOOM_1_MAP_RE(map_range[1])
                            ELSE IdxPlusOne(Max(hits)))

other_movie_note(first, last) == "Other Movie " \o first \o " - " \o last

\* PlaybackData._detect_movie_type: data['level'] and the notes added
detect_movie_type(wad, map_list, category, nomo) ==
    LET first == first_non_secret_map(wad, map_list)
        last == last_non_secret_map(wad, map_list)
        map_range == <<first, last>>
    IN  IF has_required_secret_maps(wad, map_list, category, nomo)
        THEN LET level ==
                     IF map_range = wad.d2all THEN "D2All"
                     ELSE IF map_range = wad.d1all THEN "D1All"
                     ELSE IF wad.episodes # <<>>
                     THEN episode_level(wad.episodes, map_range)
                     ELSE PyNone
             IN  IF level = PyNone
                 THEN [level |-> "Other Movie",
                       notes |-> {other_movie_note(first, last)}]
                 ELSE [level |-> level, notes |-> {}]
        ELSE [level |-> "Other Movie",
              notes |-> {other_movie_note(first, last),
                         "Does not visit secret maps."}]

InitMovie ==
    /\ mv_in \in [wad : MapListInfos, map_list : MapLists,
                  category : MovieCategories, nomo : SUBSET NomoMaps]
    /\ mv_pc = "levelstat"
    /\ mv_level = PyNone
    /\ mv_notes = {}

\* _parse_levelstat of a levelstat of several lines, lines 509-534
ParseLevelstat ==
    /\ mv_pc = "levelstat"
    /\ LET r == detect_movie_type(mv_in.wad, mv_in.map_list, mv_in.category,
                                  mv_in.nomo)
       IN  /\ mv_level' = r.level
           /\ mv_notes' = mv_notes \cup r.notes
    /\ mv_pc' = "done"
    /\ UNCHANGED <<mv_in, outsideMovie>>

NextMovie == ParseLevelstat


(***************************************************************************)
(* Tag derivation: _construct_tags of DemoJson (demo_json_dumper.py) and   *)
(* of DemoJsonConstructor (demo_json_constructor.py), on its own           *)
(***************************************************************************)
\* the note strings of the derivations: a skill note of the textfile parser,
\* notes of the replay analyzer and of the LMP parser
TagNotes ==
    {"Skill 3 max", "Incompatible", "-fast", "Uses turbo", "Uses -longtics",
     "Also Pacifist", "Other Movie Map 01 - Map 30",
     "Does not visit secret maps."}
TagCategories == {"UV Max", "Other"}

\* the record as parse leaves it: has_issue is set when the category is
\* "Other"
InitTags ==
    /\ tg_in \in {i \in [assembler : Assemblers, note_strings : SUBSET TagNotes,
                         category : TagCategories, has_issue : BOOLEAN] :
                     i.category = "Other" => i.has_issue}
    /\ tg_pc = "tags"
    /\ tg_category = tg_in.category
    /\ tg_has_issue = tg_in.has_issue
    /\ tg_tag = NoTag

\* _construct_tags
ConstructTags ==
    /\ tg_pc = "tags"
    /\ LET st == construct_tags(
                     tg_in.assembler,
                     AsState([EmptyDict EXCEPT !["category"] = tg_category],
                             tg_has_issue, FALSE, FALSE),
                     tg_in.note_strings)
       IN  /\ tg_pc' = IF st.raised THEN "raised" ELSE "done"
           /\ tg_category' = IF st.raised THEN tg_category ELSE st.dict["category"]
           /\ tg_has_issue' = st.has_issue
           /\ tg_tag' = IF st.raised \/ tg_in.note_strings = {} THEN tg_tag
                        ELSE final_tag(tg_in.assembler, tg_category,
                                       tg_in.note_strings)
    /\ UNCHANGED <<tg_in, outsideTags>>

NextTags == ConstructTags

(***************************************************************************)
(* Specifications                                                          *)
(***************************************************************************)
vars ==
    <<ledgerVars, rulesVars, playbackVars, batchVars, assemblyVars, matcherVars, parserVars, rawDataVars, parallelVars, movieVars, tagsVars>>

\* the components at rest
IdleLedger == InitLedger
IdleRules ==
    /\ cfg = [secs |-> {}, leaves |-> <<>>]
    /\ loaded = "pending"
    /\ lookup = NoLookup

IdlePlayback ==
    /\ pb_in = [wad |-> <<>>, footer_files |-> <<>>]
    /\ wad_guesses = [order |-> <<>>, count |-> <<>>]
    /\ pb_pc = "done"
    /\ pb_wi = 1
    /\ pb_ci = 0
    /\ fs = NoFile
    /\ demo_playback = NoPlayback
    /\ playback_failed = FALSE
    /\ pb_data = {}
    /\ invoked = <<>>

IdleBatch ==
    /\ bt_in = [driver |-> "none", lmps |-> <<>>]
    /\ bt_pc = "returned"
    /\ bt_i = 1
    /\ bt_j = 1
    /\ bt_facts = <<>>
    /\ bt_parsed = {}
    /\ bt_records = {}
    /\ bt_result = NoResult
    /\ process_failed = FALSE
    /\ bt_analyzed = {}
    /\ bt_failed = {}
    /\ bt_extracted = {}

IdleAssembly ==
    /\ as_in = [assembler |-> "none"]
    /\ as_pc = "done"
    /\ demo_dict = <<>>
    /\ has_issue = FALSE
    /\ maybe_cheated = FALSE
    /\ has_tags = FALSE


IdleMatcher ==
    /\ mt_in = [matcher |-> "none", demo_list |-> <<>>]
    /\ demo_jsons = <<>>
    /\ mt_pc = "done"
    /\ mt_i = 1
    /\ match_key = <<>>
    /\ found_match = FALSE
    /\ matching_demo_json = NoJson
    /\ mt_out = <<>>


IdleParser ==
    /\ lp_in = [file |-> <<>>, out |-> [run |-> "none"]]
    /\ lp_pc = "done"
    /\ lp_header = <<>>
    /\ lp_footer = <<>>
    /\ lp_pos = 0
    /\ current_byte = PyNone
    /\ footer_chars = <<>>
    /\ lp_data = NoData
    /\ lp_raw = NoRaw
    /\ lp_raised = PyNone
    /\ lp_calls = {}
    /\ lp_inserted = {}


IdleRawData ==
    /\ rw_in = [category |-> PyNone]
    /\ rw_pc = "done"
    /\ rw_category = PyNone
    /\ rw_tyson = PyNone


IdleParallel ==
    /\ pl_in = [run_through_all_cmd_line_options |-> FALSE]
    /\ pl_pc = [d \in ParallelDemos |-> "done"]
    /\ pl_n = [d \in ParallelDemos |-> 0]
    /\ pl_fs = NoWriter
    /\ pl_wrote = [d \in ParallelDemos |-> FALSE]
    /\ pl_read = [d \in ParallelDemos |-> <<>>]
    /\ pl_lost = [d \in ParallelDemos |-> FALSE]


IdleMovie ==
    /\ mv_in = [category |-> "none"]
    /\ mv_pc = "done"
    /\ mv_level = PyNone
    /\ mv_notes = {}


IdleTags ==
    /\ tg_in = [assembler |-> "none", note_strings |-> {}]
    /\ tg_pc = "done"
    /\ tg_category = PyNone
    /\ tg_has_issue = FALSE
    /\ tg_tag = NoTag

StartLedger == InitLedger /\ IdleRules /\ IdlePlayback /\ IdleBatch /\ IdleAssembly
        /\ IdleMatcher
        /\ IdleParser
        /\ IdleRawData
        /\ IdleParallel
        /\ IdleMovie
        /\ IdleTags
SpecLedger == StartLedger /\ [][NextLedger]_vars

StartRules == InitRules /\ IdleLedger /\ IdlePlayback /\ IdleBatch /\ IdleAssembly
        /\ IdleMatcher
        /\ IdleParser
        /\ IdleRawData
        /\ IdleParallel
        /\ IdleMovie
        /\ IdleTags
SpecRules == StartRules /\ [][NextRules]_vars

StartPlayback ==
    InitPlayback /\ IdleLedger /\ IdleRules /\ IdleBatch /\ IdleAssembly
        /\ IdleMatcher
        /\ IdleParser
        /\ IdleRawData
        /\ IdleParallel
        /\ IdleMovie
        /\ IdleTags
SpecPlayback == StartPlayback /\ [][NextPlayback]_vars

StartBatch == InitBatch /\ IdleLedger /\ IdleRules /\ IdlePlayback /\ IdleAssembly
        /\ IdleMatcher
        /\ IdleParser
        /\ IdleRawData
        /\ IdleParallel
        /\ IdleMovie
        /\ IdleTags
SpecBatch == StartBatch /\ [][NextBatch]_vars

StartAssembly == InitAssembly /\ IdleRules /\ IdlePlayback /\ IdleBatch
        /\ IdleMatcher
        /\ IdleParser
        /\ IdleRawData
        /\ IdleParallel
        /\ IdleMovie
        /\ IdleTags
SpecAssembly == StartAssembly /\ [][NextAssembly]_vars

StartMatcher ==
    InitMatcher /\ IdleLedger /\ IdleRules /\ IdlePlayback /\ IdleBatch /\ IdleAssembly
        /\ IdleParser
        /\ IdleRawData
        /\ IdleParallel
        /\ IdleMovie
        /\ IdleTags
SpecMatcher == StartMatcher /\ [][NextMatcher]_vars

StartParser ==
    InitParser /\ IdleLedger /\ IdleRules /\ IdlePlayback /\ IdleBatch /\ IdleAssembly /\ IdleMatcher
        /\ IdleRawData
        /\ IdleParallel
        /\ IdleMovie
        /\ IdleTags
SpecParser == StartParser /\ [][NextParser]_vars

StartRawData ==
    InitRawData /\ IdleLedger /\ IdleRules /\ IdlePlayback /\ IdleBatch /\ IdleAssembly /\ IdleMatcher /\ IdleParser
        /\ IdleParallel
        /\ IdleMovie
        /\ IdleTags
SpecRawData == StartRawData /\ [][NextRawData]_vars

StartParallel ==
    InitParallel /\ IdleLedger /\ IdleRules /\ IdlePlayback /\ IdleBatch /\ IdleAssembly /\ IdleMatcher /\ IdleParser /\ IdleRawData
        /\ IdleMovie
        /\ IdleTags
SpecParallel == StartParallel /\ [][NextParallel]_vars

StartMovie ==
    InitMovie /\ IdleLedger /\ IdleRules /\ IdlePlayback /\ IdleBatch /\ IdleAssembly /\ IdleMatcher /\ IdleParser /\ IdleRawData /\ IdleParallel
        /\ IdleTags
SpecMovie == StartMovie /\ [][NextMovie]_vars

StartTags ==
    InitTags /\ IdleLedger /\ IdleRules /\ IdlePlayback /\ IdleBatch /\ IdleAssembly /\ IdleMatcher /\ IdleParser /\ IdleRawData /\ IdleParallel /\ IdleMovie
SpecTags == StartTags /\ [][NextTags]_vars

(***************************************************************************)
(* Properties of the data manager                                          *)
(***************************************************************************)
\* what evaluate(field) returns in the current state
EvalOf(f) == FM_evaluate(dm_data[f], f)
\* the values inserted for a field with a certainty, from the history
InsertedAs(f, c) == {r.value : r \in {x \in inserted : x.field = f /\ x.certainty = c}}
\* the sources recorded for a POSSIBLE value of a field
SourcesOf(f, v) ==
    {dm_data[f][POSSIBLE][v].sources[i] : i \in 1..Len(dm_data[f][POSSIBLE][v].sources)}

\* the classes of the messages of evaluate
Empty(message) == message = NO_VALUE
Conflicted(message) == message = DISAGREED_CERTAIN

\* C28: per field the ledger is monotone under insert: once evaluate reports
\* disagreeing CERTAIN values for a field, it reports them, and that the
\* field needs attention, after every further insert, and no insert returns
\* a field that has a value to 'no source reported a value'.
C28_MonotoneUnderInsert ==
    [][\A f \in Fields :
          /\ Conflicted(EvalOf(f).message) =>
                 (Conflicted(EvalOf(f).message) /\ EvalOf(f).needs_attention)'
          /\ ~Empty(EvalOf(f).message) => ~Empty(EvalOf(f).message)']_vars

\* C28 witness: evaluate reported disagreeing CERTAIN values for a field and
\* the field has had an insert of a CERTAIN value it already held since.
C28_Witness ==
    \E f \in Fields :
        /\ conflictAt[f] > 0
        /\ conflictAt[f] < InsertsOf(dm_data[f])
        /\ \E v \in Values : dm_data[f][CERTAIN][v].count > 1

\* a field once reported as conflicted evaluates as conflicted in every later
\* state
C28_ConflictIsFinal ==
    \A f \in Fields :
        conflictAt[f] > 0 =>
            /\ Conflicted(EvalOf(f).message)
            /\ EvalOf(f).needs_attention

\* C1: when a field had at least one CERTAIN insert, the value set of its
\* Evaluation is exactly the set of values inserted as CERTAIN, so it holds no
\* value that was only inserted as POSSIBLE.
C1_CertainValuesOnly ==
    \A f \in Fields :
        InsertedAs(f, CERTAIN) # {} =>
            DOMAIN EvalOf(f).possible_values = InsertedAs(f, CERTAIN)

\* C1 witness: a field with a CERTAIN value and a different value inserted
\* only as POSSIBLE has been evaluated.
C1_Witness ==
    \E f \in Fields :
        /\ lastEval.key = f
        /\ InsertedAs(f, CERTAIN) # {}
        /\ InsertedAs(f, POSSIBLE) \ InsertedAs(f, CERTAIN) # {}

\* C2: a field with a CERTAIN value is settled exactly when one distinct
\* CERTAIN value was inserted, whatever was inserted as POSSIBLE; with more
\* than one it needs attention with the 'certain values disagree' message.
C2_CertainSettlement ==
    \A f \in Fields :
        InsertedAs(f, CERTAIN) # {} =>
            /\ (~EvalOf(f).needs_attention) <=> (Cardinality(InsertedAs(f, CERTAIN)) = 1)
            /\ Cardinality(InsertedAs(f, CERTAIN)) = 1 =>
                   EvalOf(f).message = ONE_CERTAIN
            /\ Cardinality(InsertedAs(f, CERTAIN)) > 1 =>
                   /\ EvalOf(f).needs_attention
                   /\ EvalOf(f).message = DISAGREED_CERTAIN

\* C2 witness: an evaluated field holds one CERTAIN value and two disagreeing
\* POSSIBLE values, and is settled.
C2_Witness ==
    \E f \in Fields :
        /\ lastEval.key = f
        /\ Cardinality(InsertedAs(f, CERTAIN)) = 1
        /\ Cardinality(InsertedAs(f, POSSIBLE)) = 2
        /\ ~lastEval.needs_attention

\* C3 (as claimed): with no CERTAIN value and one distinct POSSIBLE value, the
\* field is settled exactly when more than one source reported the value;
\* repeated inserts by one source are no agreement.
C3_AgreementNeedsTwoSources ==
    \A f \in Fields :
        (InsertedAs(f, CERTAIN) = {} /\ Cardinality(InsertedAs(f, POSSIBLE)) = 1) =>
            LET v == CHOOSE x \in InsertedAs(f, POSSIBLE) : TRUE
            IN  /\ (~EvalOf(f).needs_attention) <=> (Cardinality(SourcesOf(f, v)) > 1)
                /\ EvalOf(f).needs_attention => EvalOf(f).message = ONE_POSSIBLE

\* C4 (as claimed): an evaluate call changes neither the stored facts nor the
\* fields iteration yields, and returns what the evaluate call before it
\* returned for the same field when no insert came in between.
C4_EvaluateIsPure ==
    [][EvaluateStep =>
          /\ dm_data' = dm_data
          /\ dm_keys' = dm_keys
          /\ (lastEval.key = lastEval'.key => lastEval' = lastEval)]_vars

\* C5 (as claimed): iteration yields exactly one Evaluation for each field
\* that had an insert, and none for a field that never had one.
C5_IterationYieldsInsertedFields ==
    /\ {DM_iter[i].key : i \in 1..Len(DM_iter)} = {r.field : r \in inserted}
    /\ Len(DM_iter) = Cardinality({r.field : r \in inserted})

(***************************************************************************)
(* Properties of the rule index                                            *)
(***************************************************************************)
\* the order of the claim: the scope nested under skill and game mode, the
\* top-level section that applies, the level default, the compiled-in default
ClaimOrder(c, q) ==
    << IF GetLeaf(c, <<q.skill, q.game_mode>>, q.key) # PyNone
       THEN GetLeaf(c, <<q.skill, q.game_mode>>, q.key)
       ELSE GetLeaf(c, <<q.game_mode, q.skill>>, q.key),
       IF <<q.skill>> \in c.secs THEN GetLeaf(c, <<q.skill>>, q.key)
       ELSE GetLeaf(c, <<q.game_mode>>, q.key),
       GetLeaf(c, <<>>, q.key),
       IF q.use_defaults THEN VALID_KEYS[q.key] ELSE PyNone >>

\* the entry after the first one that is not None
NextInOrder(c, q) ==
    LET chain == ClaimOrder(c, q)
        first == CHOOSE i \in 1..3 :
                     chain[i] # PyNone /\ \A j \in 1..(i - 1) : chain[j] = PyNone
    IN  FirstNotNone(SubSeq(chain, first + 1, 4))

ValidQueries == {q \in Queries : q.key \in DOMAIN VALID_KEYS}

C6_Order ==
    loaded = "ok" =>
        \A q \in ValidQueries : Lookup_of(cfg, q) = FirstNotNone(ClaimOrder(cfg, q))

C6_Removal ==
    \A q \in ValidQueries :
        RemoveMostSpecific(q) =>
            /\ loaded' = "ok"
            /\ lookup'.r = NextInOrder(cfg, q)
            /\ lookup'.r = Lookup_of(cfg', q)

\* C6: on a validated level config a lookup returns the first value that is
\* not None in the order nested skill+game-mode scope, applicable top-level
\* scope, level default, compiled-in default; after the defining entry is
\* removed, the same lookup returns the next entry of that order.
C6_LookupOrder == []C6_Order /\ [][C6_Removal]_vars

\* C6 witness: the entry nested under game mode and skill was removed, and the
\* lookup fell back to the game-mode section although a different level
\* default exists.
C6_Witness ==
    /\ lookup.kind = "requery"
    /\ Len(lookup.removed.path) = 2
    /\ lookup.r = GetLeaf(cfg, <<lookup.removed.path[1]>>, lookup.q.key)
    /\ GetLeaf(cfg, <<>>, lookup.q.key) \notin {PyNone, lookup.r}
    /\ lookup.r # VALID_KEYS[lookup.q.key]

\* the level config declares an override key that is not recognized
HasUnrecognizedKey(c) == \E sl \in DOMAIN c.leaves : sl.key \notin DOMAIN VALID_KEYS

\* C7 (as claimed): loading raises for every level config that has both a
\* skill-headed and a game-mode-headed top-level section, and for every level
\* config with an unrecognized override key at any depth.
C7_LoadRejects ==
    loaded # "pending" =>
        ((found_game_mode(cfg) /\ found_skill(cfg)) \/ HasUnrecognizedKey(cfg)
            => loaded = "raised")

\* a level config whose headed top-level sections are all of one kind, with
\* recognized override keys only and nested sections of the other kind only
HeadedBy(c, heads, nested) ==
    /\ TopSections(c) # {}
    /\ TopSections(c) \subseteq heads
    /\ \A p \in c.secs : Len(p) = 2 => p[2] \in nested
    /\ \A sl \in DOMAIN c.leaves : sl.key \in DOMAIN VALID_KEYS

\* C30: a level config whose only headed top-level sections are skill-headed,
\* with recognized override keys only (also under a nested game mode), loads
\* without an error.
C30_SkillHeadedLoads ==
    (loaded # "pending" /\ HeadedBy(cfg, SKILL_OPTIONS, GAME_MODE_OPTIONS))
    => loaded = "ok"

\* the symmetric config, headed by game modes, loads without an error
C30_GameModeHeadedLoads ==
    (loaded # "pending" /\ HeadedBy(cfg, GAME_MODE_OPTIONS, SKILL_OPTIONS))
    => loaded = "ok"

\* a skill-headed config loads only when its skill sections hold no nested
\* section and every value in them is the name of a recognized override key
C30_SkillHeadedLoadsOnValues ==
    (loaded # "pending" /\ HeadedBy(cfg, SKILL_OPTIONS, GAME_MODE_OPTIONS))
    => (loaded = "ok" <=>
           /\ \A p \in cfg.secs : Len(p) = 1
           /\ \A sl \in DOMAIN cfg.leaves :
                  sl.path # <<>> => cfg.leaves[sl] \in DOMAIN VALID_KEYS)

(***************************************************************************)
(* Properties of the replay analyzer                                       *)
(***************************************************************************)
\* the place of a WAD in the order the guesses are tried
GuessRank(w) == CHOOSE r \in 1..Len(most_common(wad_guesses)) :
                    most_common(wad_guesses)[r] = w
\* candidate a comes before candidate b in the order of the claim
CandidateBefore(a, b) ==
    \/ GuessRank(a.wad) < GuessRank(b.wad)
    \/ a.wad = b.wad /\ a.cmd < b.cmd
\* an invocation that replayed (the engine wrote a transcript) and passes the
\* guard of the program
Successful(e) == e.lines > 0 /\ ~unexpected_file(pb_in, pb_in.wad[e.cand.wad])
SuccessfulRuns == {i \in 1..Len(invoked) : Successful(invoked[i])}
Accepted == demo_playback # NoPlayback
AcceptedCand == [wad |-> demo_playback.wad, cmd |-> demo_playback.cmd]

C8_TriedInOrder ==
    \A i, j \in 1..Len(invoked) :
        i < j => CandidateBefore(invoked[i].cand, invoked[j].cand)

C8_FirstSuccessful ==
    (pb_pc = "done" /\ ~pb_in.run_through_all_cmd_line_options) =>
        /\ Accepted <=> SuccessfulRuns # {}
        /\ Accepted =>
              /\ Len(invoked) \in SuccessfulRuns
              /\ \A i \in SuccessfulRuns : i = Len(invoked)
              /\ AcceptedCand = invoked[Len(invoked)].cand
              /\ demo_playback.lines = invoked[Len(invoked)].lines

C8_LongestOfAll ==
    (pb_pc = "done" /\ pb_in.run_through_all_cmd_line_options) =>
        /\ \A r \in 1..Len(most_common(wad_guesses)) :
              LET w == most_common(wad_guesses)[r]
                  tried == {invoked[i].cand.cmd :
                               i \in {k \in 1..Len(invoked) : invoked[k].cand.wad = w}}
              IN  (pb_in.wad[w].commercial \/ tried # {}) =>
                      tried = 1..Len(playback_cmd_lines(pb_in, pb_in.wad[w]))
        /\ Accepted <=> SuccessfulRuns # {}
        /\ Accepted =>
              /\ \E i \in SuccessfulRuns :
                    /\ invoked[i].cand = AcceptedCand
                    /\ invoked[i].lines = demo_playback.lines
              /\ \A i \in SuccessfulRuns : invoked[i].lines <= demo_playback.lines

\* C8: the candidates are invoked in descending priority (the WAD guesses in
\* the order of the guess counter, the command lines of each in listed order).
\* Without run_through_all_cmd_line_options the accepted replay is the first
\* candidate that replayed and passed the unexpected-file guard, and it is the
\* last one invoked; with the option every candidate of every WAD that is
\* tried is invoked and the accepted replay completed at least as many levels
\* as every other successful candidate.
C8_CandidateOrder == C8_TriedInOrder /\ C8_FirstSuccessful /\ C8_LongestOfAll

\* the invocations of the accepted candidate
RunsOfAccepted == {i \in 1..Len(invoked) : invoked[i].cand = AcceptedCand}

\* C27: a candidate whose own engine invocation wrote no transcript is never
\* accepted, and the transcript behind every accepted replay was written by
\* the invocation of the accepted candidate (never left over from an earlier
\* candidate that the unexpected-file guard rejected).
C27_OwnTranscript ==
    Accepted =>
        /\ \A i \in RunsOfAccepted : invoked[i].lines > 0
        /\ demo_playback.by = AcceptedCand

\* the transcript on disk between two candidates is the one a rejected
\* candidate left behind
C27_LeftoverIsRejected ==
    fs # NoFile =>
        /\ unexpected_file(pb_in, pb_in.wad[fs.by.wad])
        /\ \E i \in 1..Len(invoked) :
              invoked[i].cand = fs.by /\ invoked[i].lines = fs.lines

\* a candidate that passes the guard and whose engine wrote a transcript is
\* accepted with its own transcript
C27_OwnWhenWritten ==
    (Accepted /\ \A i \in RunsOfAccepted : invoked[i].lines > 0) =>
        demo_playback.by = AcceptedCand

\* a footer file that is none of: a file of the WAD, the IWAD of the WAD, an
\* allowed companion file (the Chex Quest companions for a Chex Quest WAD)
C9_UnexpectedResource(wad) ==
    \E i \in 1..Len(pb_in.footer_files) :
        /\ not_expected(wad, pb_in.footer_files[i])
        /\ ~ /\ wad.iwad = "chex"
             /\ footer_file_lower(pb_in.footer_files[i])
                    \in CHEX_ADDITIONAL_FOOTER_FILES

\* C9: a candidate is accepted only when every resource file named in the
\* footer of the demo is a file of the candidate WAD, is its IWAD, or is an
\* allowed companion file, whatever the IWAD of the candidate is.
C9_GuardAnyBaseGame ==
    Accepted => ~C9_UnexpectedResource(pb_in.wad[demo_playback.wad])

(***************************************************************************)
(* Properties of the batch drivers                                         *)
(***************************************************************************)
\* the demo files whose playback failed while CONFIG.skip_playback is off
StoppedLmps == IF bt_in.skip_playback THEN {} ELSE bt_failed

C10_NoFactsNoRecord ==
    \A l \in StoppedLmps : "playback" \notin bt_facts[l] /\ l \notin bt_records

C10_BatchGoesOn ==
    (bt_pc = "returned" /\ StoppedLmps # {}
        /\ ~(bt_in.driver = "handle_demos" /\ bt_in.skip_demo_pack_issues))
    => bt_analyzed = LmpsOf(bt_in)

\* C10: for a demo whose playback failed (playback_failed set, nothing
\* raised) the ledger of the demo holds no fact from the replay analyzer and
\* no record is produced, and when the driver returns every demo of the batch
\* has been processed.
C10_FailureIsLocal == C10_NoFactsNoRecord /\ C10_BatchGoesOn

\* the downloads whose processing has ended: those the loop of the driver
\* has left behind and, once the driver has returned or raised, the one it
\* stopped in
Ended(d) == d < bt_i \/ (bt_pc # "run" /\ d = bt_i)

\* C21: the directory a download of handle_demos is unpacked into is gone
\* once the processing of that download has ended, whether it ended with a
\* dumped record, with a failed playback or with an error raised while the
\* record was assembled.  (The directories of DemoZipInfo outlive
\* process_demos, whose caller is left to call DemoZipInfo.clean.)
C21_ExtractDirRemoved ==
    bt_in.driver = "handle_demos"
    => \A d \in bt_extracted : ~Ended(d)

\* the success path of handle_demos does remove the directory
C21_RemovedOnSuccess ==
    (bt_in.driver = "handle_demos" /\ bt_result = "True") => bt_extracted = {}

\* the failure paths of handle_demos leave the directory of the download
\* they stopped in
C21_LeftOnFailure ==
    (bt_in.driver = "handle_demos"
        /\ (bt_result = "False" \/ bt_pc = "raised"))
    => bt_extracted = {bt_i}

(***************************************************************************)
(* Properties of the record assemblers                                     *)
(***************************************************************************)
\* the values a field of the ledger holds, of one certainty or of any
HeldAs(f, c) == {v \in AsValues : dm_data[f][c][v].count > 0}
Held(f) == HeldAs(f, CERTAIN) \cup HeldAs(f, POSSIBLE)
\* the sources that reported a field
ReportedBy(f) ==
    {src \in AsSources :
        \E c \in Certainties, v \in AsValues : InSeq(src, dm_data[f][c][v].sources)}
\* the JSON keys the ledger has an entry for
LedgerKeys == {KEY_TO_JSON_MAP(dm_keys[i]) : i \in 1..Len(dm_keys)}

\* every fact is CERTAIN and every field was reported by a single source
AllCertainSingleSource ==
    /\ dm_keys # <<>>
    /\ \A f \in AsFields :
          HeldAs(f, POSSIBLE) = {} /\ Cardinality(ReportedBy(f)) <= 1

C11_AllCertainNoIssue ==
    (as_pc = "done" /\ AllCertainSingleSource) => ~has_issue /\ ~maybe_cheated

\* the ledger holds every required field that has no default, no value is
\* the placeholder, the category is not "Other" and no note flags an issue
C11_Complete ==
    /\ {"level", "category"} \subseteq LedgerKeys
    /\ \A f \in AsFields : NEEDS_ATTENTION_PLACEHOLDER \notin Held(f)
    /\ "Other" \notin Held("category")
    /\ "Uses turbo" \notin as_in.note_strings

\* C11: a record assembled from a ledger in which every fact is CERTAIN and
\* reported by a single source, which holds every required field that has no
\* default, no placeholder value and no category "Other", without a note that
\* flags an issue, has has_issue and maybe_cheated unset.
C11_CleanLedgerNoIssue ==
    (as_pc = "done" /\ AllCertainSingleSource /\ C11_Complete)
        => ~has_issue /\ ~maybe_cheated

C11_Witness ==
    /\ as_pc = "done" /\ AllCertainSingleSource /\ C11_Complete
    /\ LedgerKeys = {"level", "category", "tas"}
    /\ demo_dict["tas"] = "True"

\* the evaluation of a field of the ledger
AsEval(f) == FM_evaluate(dm_data[f], f)
\* the fields whose evaluation needs attention and is not a category
\* disagreement that a category rule settles
Unsettled ==
    {f \in AsFields :
        /\ KEY_TO_JSON_MAP(f) \in LedgerKeys
        /\ AsEval(f).needs_attention
        /\ ~(f = "category" /\ as_in.has_stats
             /\ inferred_category(AsEval(f), as_in).kind = "inferred")
        /\ ~(f = "category" /\ ~as_in.has_stats
             /\ inferred_category(AsEval(f), [as_in EXCEPT !.has_stats = TRUE]).kind
                    = "inferred")}
\* the category of the record was replaced by the note "Incompatible"
CategoryOverridden(k) ==
    k = "category" /\ "Incompatible" \in as_in.note_strings
    /\ demo_dict[k] = "Other"

\* C12: assembly never raises; for every field whose evaluation needs
\* attention, but a category disagreement settled by a category rule, the
\* record has has_issue set and the field holds the only candidate when there
\* is exactly one and the placeholder otherwise.
C12_AttentionIsFlagged ==
    /\ as_pc # "raised"
    /\ as_pc = "done" =>
          \A f \in Unsettled :
              /\ has_issue
              /\ \/ CategoryOverridden(KEY_TO_JSON_MAP(f))
                 \/ demo_dict[KEY_TO_JSON_MAP(f)] =
                        IF Cardinality(Held(f)) = 1
                        THEN CHOOSE v \in Held(f) : TRUE
                        ELSE NEEDS_ATTENTION_PLACEHOLDER

\* the required keys the ledger has no entry for
AbsentRequired == {k \in DOMAIN demo_dict : InSeq(k, REQUIRED_KEYS)} \ LedgerKeys

ReportersOf(f, v) ==
    {src \in AsSources : \E c \in Certainties : InSeq(src, dm_data[f][c][v].sources)}
\* the category has the two candidates "NoMo 100S" and "NoMo", one reported
\* by the playback and one by the textfile, on a level without secrets; no
\* other field and no note flags an issue or replaces the category
C14_Case ==
    /\ as_pc # "populate"
    /\ Held("category") = {"NoMo 100S", "NoMo"}
    /\ \E pv \in Held("category") :
           /\ ReportersOf("category", pv) = {"playback"}
           /\ \A tv \in Held("category") \ {pv} :
                  ReportersOf("category", tv) = {"textfile"}
    /\ AsEval("category").needs_attention
    /\ no_secrets(as_in.stats)
    /\ as_in.note_strings = {}
    /\ Held("level") = {"Map 01"}
    /\ Held("is_tas") = {}

\* C14: in that case the category of the record is "NoMo 100S" and has_issue
\* is not set, whichever source reported which value.
C14_NoMoResolves ==
    C14_Case =>
        /\ as_pc = "done"
        /\ demo_dict["category"] = "NoMo 100S"
        /\ ~has_issue

\* the replay reported "NoMo" and the textfile "NoMo 100S"
C14_ReplayNoMo ==
    C14_Case /\ ReportersOf("category", "NoMo") = {"playback"}
\* the replay reported "NoMo 100S" and the textfile "NoMo"
C14_ReplayNoMo100S ==
    C14_Case /\ ReportersOf("category", "NoMo 100S") = {"playback"}
\* what the assemblers do in the case of C14
C14_Observed ==
    /\ C14_ReplayNoMo100S =>
           as_pc = "done" /\ demo_dict["category"] = "NoMo 100S" /\ ~has_issue
    /\ (C14_ReplayNoMo /\ as_in.has_stats) =>
           as_pc = "done" /\ demo_dict["category"] = "NoMo" /\ ~has_issue
    /\ (C14_ReplayNoMo /\ ~as_in.has_stats) => as_pc = "raised"

(***************************************************************************)
(* Properties of the demo matcher                                          *)
(***************************************************************************)
\* a demo JSON and a key agree on every component of the key, a time also when the
\* JSON time without its tics is the value
agree_found(demo_json, key) ==
    \A idx \in 1..Len(key) :
        LET json_key == MATCH_KEY_MAPPING[idx]
            json_value == demo_json[json_key]
        IN  json_value # key[idx] =>
                json_key = "time" /\ split_dot_first(json_value) = key[idx]
\* a demo JSON agrees with a DSDA entry on a key: every component is equal,
\* for DemoUpdater a time also when the JSON only adds the tics
agrees(demo_json, key) ==
    IF mt_in.matcher = "main" THEN main_found(demo_json, key)
    ELSE agree_found(demo_json, key)
\* the demo JSONs of a pool that agree with an entry on its first k components
Agreeing(pool, entry, k) ==
    {j \in 1..Len(pool) : agrees(pool[j], SubSeq(match_key_of(entry), 1, k))}
\* the key lengths the matcher tried for a settled entry
Tried(o) ==
    IF o.kind = "matched" THEN Len(o.key)..Len(MATCH_KEY_MAPPING)
    ELSE 1..Len(MATCH_KEY_MAPPING)
Ambiguous(i) ==
    \E k \in Tried(mt_out[i]) :
        Cardinality(Agreeing(mt_out[i].pool, mt_in.demo_list[i], k)) >= 2

\* C15: for every settled DSDA entry for which two or more demo JSONs agree
\* with the entry on a key the matcher tried, no demo JSON was selected: the
\* entry is not matched, so no JSON leaves the pool and no update is made.
C15_AmbiguousIsNotMatched ==
    \A i \in 1..Len(mt_out) : Ambiguous(i) => mt_out[i].kind # "matched"

\* C16: a settled DSDA entry that is matched is matched to a demo JSON that
\* agrees with it on the key in use, and no demo JSON of the pool agrees with
\* it on a longer prefix of the full key; an entry that is not matched has
\* no demo JSON that agrees on the one-component key; inside the loop the key
\* is a non-empty prefix of the full key.
C16_LongestPrefix ==
    /\ \A i \in 1..Len(mt_out) :
          LET o == mt_out[i]
              entry == mt_in.demo_list[i]
          IN  IF o.kind = "matched"
              THEN /\ agrees(o.json, o.key)
                   /\ o.key = SubSeq(match_key_of(entry), 1, Len(o.key))
                   /\ \A k \in (Len(o.key) + 1)..Len(MATCH_KEY_MAPPING) :
                          Agreeing(o.pool, entry, k) = {}
              ELSE Agreeing(o.pool, entry, 1) = {}
    /\ mt_pc = "match" =>
          /\ match_key # <<>>
          /\ match_key =
                 SubSeq(match_key_of(mt_in.demo_list[mt_i]), 1, Len(match_key))

\* C25: a demo JSON is taken as the match of a DSDA entry only if it equals
\* the entry on every component still in the key, where the time alone also
\* counts as equal when the time of the JSON cut at its fractional part
\* equals the time of the entry; a mismatch on any other component prevents
\* the match.
C25_MatchNeedsEveryComponent ==
    \A i \in 1..Len(mt_out) :
        mt_out[i].kind = "matched" =>
            \A idx \in 1..Len(mt_out[i].key) :
                LET json_key == MATCH_KEY_MAPPING[idx]
                    json_value == mt_out[i].json[json_key]
                    value == mt_out[i].key[idx]
                IN  \/ json_value = value
                    \/ json_key = "time" /\ split_dot_first(json_value) = value

\* the matching loop of main keeps to it
C25_MainNeedsEveryComponent ==
    mt_in.matcher = "main" => C25_MatchNeedsEveryComponent

(***************************************************************************)
(* Properties of the LMP parser                                            *)
(***************************************************************************)
\* the file starts with the four bytes of the ZDoom signature
ModernFile == Len(lp_in.file) >= 4 /\ SubSeq(lp_in.file, 1, 4) = FORM
\* the pieces of the file after the last end-of-inputs byte
Trailer ==
    LET marks == {i \in 1..Len(lp_in.file) : lp_in.file[i] = END_OF_INPUTS}
        last == CHOOSE i \in marks : \A m \in marks : m <= i
    IN  IF marks = {} THEN lp_in.file
        ELSE SubSeq(lp_in.file, last + 1, Len(lp_in.file))

\* C17: the analysis of no file raises, also not of an empty file, of a file
\* shorter than the header, or of a file without an end-of-inputs byte.
C17_NeverRaises == lp_raised = PyNone /\ lp_pc # "raised"

\* analyze has returned (populate_data_manager may have run since)
Analyzed == lp_pc \in {"done", "populated"}

\* C18: for a file that starts with the ZDoom signature, the analysis never
\* scans backward from the end of the file and never parses the header slots
\* or the footer; the footer is empty, and a source port, once set, is the
\* one made of bytes 20 and 21 of the file.
C18_ModernSkipsFooter ==
    ModernFile =>
        /\ lp_calls = {}
        /\ lp_pc \notin {"scan", "parse"}
        /\ footer_chars = <<>>
        /\ lp_footer = <<>>
        /\ lp_data.num_players = 0
        /\ lp_data.is_solo_net = PyNone
        /\ Analyzed =>
              lp_data.source_port =
                  [kind |-> "ZDoom/GZDoom",
                   compat |-> <<lp_in.file[21], lp_in.file[22]>>]
        /\ ~Analyzed => lp_data.source_port = NoPort

\* C18 witness: a finished analysis of a ZDoom file with an end-of-inputs byte
\* and a command line after its header
C18_Witness ==
    /\ ModernFile
    /\ lp_pc = "done"
    /\ Len(lp_in.file) = 24
    /\ lp_in.file[23] = END_OF_INPUTS
    /\ lp_in.file[24] = CmdLine
    /\ lp_in.out.run = "first"
    /\ lp_in.out.players[1] = 1

\* the player slots with a non-zero value
NonZeroSlots == {s \in PlayerSlots : lp_in.out.players[s] # 0}

\* C19: after the analysis of a file without the ZDoom signature that
\* parse_lmp could read, num_players is the number of player slots with a
\* non-zero value; with slot 1 alone non-zero it is 1, and without -solo-net
\* on the command line of the footer no is_solo_net fact is set.
C19_PlayersAreNonZeroSlots ==
    (~ModernFile /\ Analyzed /\ lp_in.out.run # "none") =>
        /\ lp_data.num_players = Cardinality(NonZeroSlots)
        /\ NonZeroSlots = {1} =>
              /\ lp_data.num_players = 1
              /\ ~footer_solo_net(Trailer) => lp_data.is_solo_net = PyNone

(***************************************************************************)
(* Properties of the category corrections                                  *)
(***************************************************************************)
\* the level of the replay is configured Tyson-only
TysonOnly ==
    truthy(get_single_key_for_map(rw_in.map_info, "tyson_only", rw_in.skill,
                                  rw_in.game_mode, TRUE))
\* a replay with only Tyson weapons and all kills, guessed UV Max
TysonRun == rw_in.tyson_weapons /\ rw_in.all_kills /\ rw_in.category = "UV Max"

C20_TysonOverride ==
    /\ (rw_pc = "done" /\ TysonRun /\ ~TysonOnly) => rw_category = "Tyson"
    /\ (rw_pc # "start" /\ rw_in.category = "UV Max"
        /\ (TysonOnly \/ ~rw_in.tyson_weapons \/ ~rw_in.all_kills)) =>
           rw_tyson = "UV Max"

\* C20: on every replay of a single level with only Tyson weapons and all
\* kills, guessed UV Max, on a level not configured Tyson-only, the final
\* category is "Tyson"; when the level is Tyson-only or a flag is off, or the
\* replay has several levels, the Tyson step keeps UV Max.
C20_SingleLevelTysonOverride ==
    /\ (rw_pc = "done" /\ TysonRun /\ ~TysonOnly /\ rw_in.affected_levels = 1) =>
          rw_category = "Tyson"
    /\ (rw_pc # "start" /\ rw_in.category = "UV Max"
        /\ (TysonOnly \/ ~rw_in.tyson_weapons \/ ~rw_in.all_kills
            \/ rw_in.affected_levels > 1)) =>
           rw_tyson = "UV Max"

\* C20 witness: a Tyson run of one level of jumpwad, with a section for the
\* skill that does not set tyson_only, ends as Tyson
C20_Witness ==
    /\ rw_pc = "done"
    /\ TysonRun
    /\ rw_in.affected_levels = 1
    /\ rw_in.skill = "hard"
    /\ rw_in.map_info = [secs |-> {<<"hard">>}, leaves |-> <<>>]
    /\ rw_in.wad = "jumpwad"
    /\ ~rw_in.all_items
    /\ rw_category = "Tyson"

\* the facts of the parser that are guesses of the compatibility level or
\* of the engine family
LmpGuessKeys == {"source_port"}
\* the tool-assisted flag the parser inserted comes from the turning-rate
\* flag of the header
TasFromHeader == lp_in.out.run # "none" /\ lp_in.out.sr50_on_turns

\* C23 as claimed: the parser inserts the tool-assisted flag as CERTAIN when
\* it is derived from the turning-rate (SR50 on turns) flag of the header,
\* and every fact that is neither a compatibility-level/engine-family guess
\* nor the tool-assisted flag as CERTAIN.
C23_HeaderTasIsCertain ==
    lp_pc = "populated" =>
        \A e \in lp_inserted :
            /\ (e.key = "is_tas" /\ TasFromHeader) => e.certainty = CERTAIN
            /\ e.key \notin LmpGuessKeys \cup {"is_tas"} => e.certainty = CERTAIN

\* C23 as amended: the parser sets the tool-assisted flag only from the
\* turning-rate flag of the header and inserts it as POSSIBLE, and every
\* fact that is neither a compatibility-level/engine-family guess nor the
\* tool-assisted flag as CERTAIN.
C23_HeaderTasIsPossible ==
    lp_pc = "populated" =>
        \A e \in lp_inserted :
            /\ e.key = "is_tas" => (TasFromHeader /\ e.certainty = POSSIBLE)
            /\ e.key \notin LmpGuessKeys \cup {"is_tas"} => e.certainty = CERTAIN

C23_Witness ==
    /\ lp_pc = "populated"
    /\ TasFromHeader
    /\ [key |-> "is_tas", certainty |-> POSSIBLE] \in lp_inserted
    /\ [key |-> "is_solo_net", certainty |-> CERTAIN] \in lp_inserted

\* the engine named by the parser is inserted as CERTAIN as well
C23_SourcePortCertain ==
    \A e \in lp_inserted : e.key = "source_port" => e.certainty = CERTAIN

(***************************************************************************)
(* Properties of two replay analyses side by side                          *)
(***************************************************************************)
\* every transcript demo d has read was written by an invocation of d
ReadsOwn(d) == \A i \in 1..Len(pl_read[d]) : pl_read[d][i].demo = d

\* C22: of two demos analysed in parallel, each reads only transcripts its
\* own engine invocations wrote, and no transcript an invocation of one demo
\* wrote is deleted or replaced by the analysis of the other before the
\* demo looks for it.
C22_OwnTranscripts ==
    \A d \in ParallelDemos : ReadsOwn(d) /\ ~pl_lost[d]

\* no analysis reads the transcript of the other (does not hold)
C22_NoForeignRead == \A d \in ParallelDemos : ReadsOwn(d)

\* no transcript is removed or replaced by the other analysis (does not hold)
C22_NoLostTranscript == \A d \in ParallelDemos : ~pl_lost[d]

\* an analysis that runs before the other has started keeps to its own
\* transcripts
C22_OneAfterTheOther ==
    (pl_pc[1] = "done" /\ pl_n[2] = 0 /\ pl_pc[2] = "init")
    => ReadsOwn(1) /\ ~pl_lost[1]

(***************************************************************************)
(* Properties of the movie type detection                                  *)
(***************************************************************************)
WholeGameLabels == {"D2All", "D1All"}
EpisodeLabels == {"Episode 1", "Episode 2", "Episode 3", "Episode 4"}
\* the pair [first non-secret level, last non-secret level] of the run
MoviePair ==
    <<first_non_secret_map(mv_in.wad, mv_in.map_list),
      last_non_secret_map(mv_in.wad, mv_in.map_list)>>
\* the pair is a configured whole-game or whole-episode range
PairIsConfiguredRange ==
    \/ MoviePair = mv_in.wad.d2all
    \/ MoviePair = mv_in.wad.d1all
    \/ \E i \in 1..Len(mv_in.wad.episodes) : mv_in.wad.episodes[i] = MoviePair
CompletenessRequiring ==
    mv_in.category \in ALL_SECRETS_CATEGORIES \cup ALL_KILLS_CATEGORIES
\* the secret levels reachable from a secret-exit level the run played
ReachableSecretLevels ==
    {e[2] : e \in {x \in mv_in.wad.secret_exits : InSeq(x[1], mv_in.map_list)}}
\* of these, the ones the category needs: a category that requires all kills
\* but not all secrets does not need a secret level that is a nomo_map
NeededSecretLevels ==
    {m \in ReachableSecretLevels :
        mv_in.category \in ALL_SECRETS_CATEGORIES \/ m \notin mv_in.nomo}
OtherMovieNoted ==
    other_movie_note(MoviePair[1], MoviePair[2]) \in mv_notes

\* C24 as claimed: the level of a multi-level run is a whole-game label, an
\* 'Episode N' label or 'Other Movie'; it is 'Other Movie', with a note that
\* names the first and the last non-secret level, exactly when the pair is
\* no configured whole-game or whole-episode range or a
\* completeness-requiring category did not visit every secret level
\* reachable from a secret-exit level it played.
C24_OtherMovieExactly ==
    mv_pc = "done" =>
        /\ mv_level \in WholeGameLabels \cup EpisodeLabels \cup {"Other Movie"}
        /\ mv_level = "Other Movie" <=>
               \/ ~PairIsConfiguredRange
               \/ /\ CompletenessRequiring
                  /\ \E m \in ReachableSecretLevels : ~InSeq(m, mv_in.map_list)
        /\ mv_level = "Other Movie" => OtherMovieNoted

\* C24 as amended: ... or a completeness-requiring category did not visit
\* every secret level it needs of those reachable from a secret-exit level
\* it played.
C24_OtherMovieNeeded ==
    mv_pc = "done" =>
        /\ mv_level \in WholeGameLabels \cup EpisodeLabels \cup {"Other Movie"}
        /\ mv_level = "Other Movie" <=>
               \/ ~PairIsConfiguredRange
               \/ /\ CompletenessRequiring
                  /\ \E m \in NeededSecretLevels : ~InSeq(m, mv_in.map_list)
        /\ mv_level = "Other Movie" => OtherMovieNoted

\* a run of a kills-only category over the whole game that leaves out a
\* no-monsters secret level and is a whole-game run all the same
C24_Witness ==
    /\ mv_pc = "done"
    /\ mv_in.category = "Tyson"
    /\ mv_in.map_list = <<"Map 01", "Map 15", "Map 30">>
    /\ "Map 31" \in mv_in.nomo
    /\ mv_level = "D2All"

\* a whole-game run that misses a secret level it needs, and an episode run
C24_WitnessMissed ==
    /\ mv_pc = "done"
    /\ mv_in.category = "UV Max"
    /\ PairIsConfiguredRange
    /\ mv_level = "Other Movie"
C24_WitnessEpisode == mv_pc = "done" /\ mv_level = "Episode 2"

(***************************************************************************)
(* Properties of the tag derivation                                        *)
(***************************************************************************)
\* the note strings hold a skill-override note: 'Skill <digit> ...'
SkillOverride ==
    \E n \in tg_in.note_strings : SKILL_CATEGORY_NOTE_RE_match(n)

\* C26: when the note strings hold a skill-override note and the category of
\* the record is not 'Other', the tag derivation raises; it does not end
\* with a tag, or without one, as if nothing were wrong.
C26_SkillNoteRaises ==
    (tg_pc # "tags" /\ SkillOverride /\ tg_in.category # "Other")
    => tg_pc = "raised"

\* the derivation does not raise at all
C26_NeverRaises == tg_pc # "raised"

\* C29: every record whose category is 'Other' when the assembly ends has
\* has_issue set, also when the tag derivation changed the category to
\* 'Other' on an 'Incompatible' note or a long-tics note.
C29_OtherHasIssue ==
    (tg_pc = "done" /\ tg_category = "Other") => tg_has_issue

\* the category is 'Other' before the tag derivation only with has_issue set
C29_OtherBeforeTags ==
    (tg_pc = "tags" /\ tg_category = "Other") => tg_has_issue

\* the category the long-tics note of DemoJson turns into 'Other' comes with
\* has_issue set
C29_LongticsHasIssue ==
    (tg_pc = "done" /\ tg_in.assembler = "DemoJson"
     /\ "Uses -longtics" \in tg_in.note_strings)
    => (tg_category = "Other" /\ tg_has_issue)

\* without an 'Incompatible' note a record that ends as 'Other' has has_issue
\* set
C29_OtherHasIssueButIncompatible ==
    (tg_pc = "done" /\ tg_category = "Other"
     /\ "Incompatible" \notin tg_in.note_strings)
    => tg_has_issue
====
